---- MODULE Spec2Model ----
(***************************************************************************)
(* Model of the roze-mcp bridge: the JSON-RPC transport loop of            *)
(* src/server.ts, the tool handlers of src/mcp.ts, the configuration and   *)
(* policy gate of src/config.ts and the two backend gateways (the axios    *)
(* strategy of http.ts, kept in src/firebase.ts, and the callable strategy *)
(* kept in src/config.ts).                                                 *)
(*                                                                         *)
(* Texts (error messages, template literals) are sequences of string       *)
(* pieces; `undefined' is the string Absent.  A JSON object whose member   *)
(* set varies (a response, a tool result) is a record whose DOMAIN is the  *)
(* set of members it has.                                                  *)
(***************************************************************************)
EXTENDS Integers, Sequences, FiniteSets, TLC

VARIABLES
    env,        \* PROXY_MODE of process.env ("undefined" when unset)
    contracts,  \* which contract files can be read: the OpenAPI document, the schemas
    proc,       \* the process: running or exited, its input stream, its exit code
    validatorErrors, \* the errors property of the two compiled validators
    proxyMode,  \* config.proxyMode
    logLevel,   \* config.logLevel
    reqs,       \* one entry per input line read so far, with the position of its handler
    stdout,     \* the lines written to process.stdout, in order
    stderr,     \* the lines written to process.stderr, in order
    sent,       \* the HTTP requests handed to axios, in order
    gateway     \* the last direct call of a gateway operation and what it returned

vars == <<env, contracts, proc, validatorErrors, proxyMode, logLevel, reqs, stdout, stderr, sent, gateway>>

\* ---------------------------------------------------------------- bounds

MaxLines == 2

\* ------------------------------------------------------- JavaScript values

Absent == "undefined"

Range(s) == {s[i] : i \in 1..Len(s)}

\* ------------------------------------------------------------ src/config.ts

ProxyModes == {"dev-only", "all"}

\* the values of PROXY_MODE in process.env that envSchema.parse accepts:
\* unset, or one of the two modes
EnvProxyModes == {Absent} \cup ProxyModes

\* envSchema.parse on PROXY_MODE: z.enum([...]).default('dev-only')
envSchema(value) == IF value = Absent THEN "dev-only" ELSE value

LogLevels == {"debug", "info", "warn", "error"}

apiBaseDev == "API_BASE_DEV"

apiBaseProd == "API_BASE_PROD"

getApiBase(target) == IF target = "dev" THEN apiBaseDev ELSE apiBaseProd

\* a gate that lets every target through
isProxyAllowed_AlwaysTrue(target) == TRUE

\* a gate that tells the modes apart the other way round
isProxyAllowed_DevOnlyIsAll(target) ==
    IF proxyMode = "dev-only" THEN TRUE ELSE target = "dev"

isProxyAllowed(target) ==
    IF proxyMode = "all" THEN TRUE ELSE target = "dev"

\* ------------------------------------------------ src/firebase.ts (http.ts)

\* The character classes the four regular expressions of sanitizeError tell
\* apart: a keyword (api_key, token, secret, password, in any of the spellings
\* the expression accepts), "=" for [=:], " " for \s, "&", "x" for any other
\* character and "***" for the mask the replacement writes.
Keywords == <<"api_key", "token", "secret", "password">>

IsValueSym(c) == c \notin {" ", "&"}

RECURSIVE RunLen(_, _)
\* the length of the longest prefix of m made of symbols satisfying the class
RunLen(m, space) ==
    IF m = <<>> THEN 0
    ELSE IF (space /\ Head(m) = " ") \/ (~space /\ IsValueSym(Head(m)))
         THEN 1 + RunLen(Tail(m), space)
         ELSE 0

\* the length of the match of  key[=:]\s*[^\s&]+  at the head of m, 0 if none
MatchLen(key, m) ==
    IF Len(m) >= 3 /\ m[1] = key /\ m[2] = "="
    THEN LET rest   == SubSeq(m, 3, Len(m))
             spaces == RunLen(rest, TRUE)
             value  == RunLen(SubSeq(rest, spaces + 1, Len(rest)), FALSE)
         IN  IF value >= 1 THEN 2 + spaces + value ELSE 0
    ELSE 0

RECURSIVE ReplaceAll(_, _)
\* String.prototype.replace with a /g expression: leftmost matches, left to right
ReplaceAll(key, m) ==
    IF m = <<>> THEN <<>>
    ELSE LET n == MatchLen(key, m)
         IN  IF n > 0
             THEN <<key, "=", "***">> \o ReplaceAll(key, SubSeq(m, n + 1, Len(m)))
             ELSE <<Head(m)>> \o ReplaceAll(key, Tail(m))

sanitizeError(message) ==
    ReplaceAll(Keywords[4],
        ReplaceAll(Keywords[3],
            ReplaceAll(Keywords[2],
                ReplaceAll(Keywords[1], message))))

\* the outcome of the axios call of makeRequest: the promise resolves with a
\* response (validateStatus accepts every status), or rejects with an AxiosError
\* (DNS, timeout, refused connection), or rejects with some other error
HttpStatuses == {200, 500}

AxiosMessages ==
    { <<"x">>, <<"x", " ", "token", "=", "x", "&", "x">> }

NullBody == [kind |-> "null"]

DataBody == [kind |-> "data"]

\* what the backend may put in response.data
ResponseData == {DataBody, NullBody, [kind |-> "error"]}

AxiosOutcomes ==
    [kind : {"response"}, status : HttpStatuses, message : {<<>>}, data : {DataBody}]
        \cup [kind : {"axiosError"}, status : {0}, message : AxiosMessages]
        \cup [kind : {"otherError"}, status : {0}, message : {<<>>}]

\* makeRequest that counts a redirect status as a success
makeRequest_OkBelow400(outcome) ==
    CASE outcome.kind = "response" ->
            [status |-> outcome.status,
             body   |-> outcome.data,
             ok     |-> (outcome.status >= 200 /\ outcome.status < 400)]
      [] outcome.kind = "axiosError" ->
            [status |-> outcome.status,
             body   |-> NullBody,
             ok     |-> FALSE,
             error  |-> sanitizeError(outcome.message)]
      [] OTHER ->
            [status |-> 0,
             body   |-> NullBody,
             ok     |-> FALSE,
             error  |-> <<"Unknown network error">>]

\* makeRequest, from the settling of the axios promise on
makeRequest(outcome) ==
    CASE outcome.kind = "response" ->
            [status |-> outcome.status,
             body   |-> outcome.data,
             ok     |-> (outcome.status >= 200 /\ outcome.status < 300)]
      [] outcome.kind = "axiosError" ->
            [status |-> outcome.status,   \* error.response?.status || 0
             body   |-> NullBody,
             ok     |-> FALSE,
             error  |-> sanitizeError(outcome.message)]
      [] OTHER ->
            [status |-> 0,
             body   |-> NullBody,
             ok     |-> FALSE,
             error  |-> <<"Unknown network error">>]

\* ------------------------------------- src/config.ts (callable strategy)

\* the outcome of a callable: it resolves with data, or rejects with an error
\* that carries a code and a message
ErrorCodes == {"unauthenticated", "permission-denied", "invalid-argument", "internal"}

CallableMessages ==
    { <<>>, <<"x">>, <<"x", " ", "token", "=", "x">>, <<"password", "=", "x", "&", "x">> }

CallableOutcomes ==
    [kind : {"resolve"}, code : {Absent}, message : {<<>>}]
        \cup [kind : {"reject"}, code : ErrorCodes, message : CallableMessages]

\* error.message || 'Firebase function call failed'
MessageOr(message) ==
    IF message = <<>> THEN <<"Firebase function call failed">> ELSE message

callHealthz(outcome) ==
    IF outcome.kind = "resolve"
    THEN [ok |-> TRUE, status |-> 200, body |-> DataBody]
    ELSE [ok     |-> FALSE,
          status |-> IF outcome.code = "unauthenticated" THEN 401 ELSE 500,
          error  |-> MessageOr(outcome.message),
          body   |-> [error |-> outcome.message]]

callCreateOrder(payload, outcome) ==
    IF outcome.kind = "resolve"
    THEN [ok |-> TRUE, status |-> 200, body |-> DataBody]
    ELSE [ok     |-> FALSE,
          status |-> CASE outcome.code = "unauthenticated" -> 401
                       [] outcome.code = "permission-denied" -> 403
                       [] outcome.code = "invalid-argument" -> 400
                       [] OTHER -> 500,
          error  |-> MessageOr(outcome.message),
          body   |-> [error |-> outcome.message]]

\* callCreateSubscription without its catch: a rejected callable is thrown on
callCreateSubscription_Rethrows(payload, outcome) ==
    IF outcome.kind = "resolve"
    THEN [ok |-> TRUE, status |-> 200, body |-> DataBody]
    ELSE [thrown |-> MessageOr(outcome.message)]

callCreateSubscription(payload, outcome) ==
    IF outcome.kind = "resolve"
    THEN [ok |-> TRUE, status |-> 200, body |-> DataBody]
    ELSE [ok     |-> FALSE,
          status |-> CASE outcome.code = "unauthenticated" -> 401
                       [] outcome.code = "permission-denied" -> 403
                       [] outcome.code = "invalid-argument" -> 400
                       [] OTHER -> 500,
          error  |-> MessageOr(outcome.message),
          body   |-> [error |-> outcome.message]]

NoCall == [op |-> Absent, outcome |-> [kind |-> Absent, code |-> Absent, message |-> <<>>],
           result |-> [ok |-> TRUE]]

\* --------------------------------------------------------------- src/mcp.ts

\* A payload is what JSON.parse made of arguments.payload: undefined when the
\* member is missing, a string, or an object whose two fields are each
\* missing, present and ill-formed ("bad"), or present and well-formed ("ok").
FieldStates == {"missing", "bad", "ok"}

NoPayload == [type |-> "undefined", email |-> "missing", items |-> "missing"]

StringPayload == [type |-> "string", email |-> "missing", items |-> "missing"]

ObjectPayload(e, i) == [type |-> "object", email |-> e, items |-> i]

\* schemas/order.create.json and schemas/subscribe.create.json: the fields
\* each contract requires and constrains
orderCreateSchema == <<"email", "items">>

subscribeCreateSchema == <<"email">>

RECURSIVE FieldErrors(_, _)
\* the errors of an object payload, field by field (allErrors: true); the
\* instancePath of a field is written without its leading "/"
FieldErrors(schema, payload) ==
    IF schema = <<>> THEN <<>>
    ELSE LET f == Head(schema)
             here == CASE payload[f] = "missing" ->
                            <<[instancePath |-> "", message |-> "must have required property"]>>
                       [] payload[f] = "bad" ->
                            <<[instancePath |-> f, message |-> "must match format"]>>
                       [] OTHER -> <<>>
         IN  here \o FieldErrors(Tail(schema), payload)

\* a validator compiled without allErrors: it stops at the first error
ValidateErrors_FirstOnly(schema, payload) ==
    IF payload.type # "object"
    THEN <<[instancePath |-> "", message |-> "must be object"]>>
    ELSE LET errs == FieldErrors(schema, payload)
         IN  IF errs = <<>> THEN <<>> ELSE <<Head(errs)>>

\* a compiled validator: the value of validate.errors after validate(payload);
\* the payload is valid exactly when there is no error
ValidateErrors(schema, payload) ==
    IF payload.type # "object"
    THEN <<[instancePath |-> "", message |-> "must be object"]>>
    ELSE FieldErrors(schema, payload)

RECURSIVE JoinErrors(_)
\* errors.map(err => `${err.instancePath || 'root'}: ${err.message}`).join('; ')
JoinErrors(errs) ==
    IF errs = <<>> THEN <<>>
    ELSE LET e == Head(errs)
             one == <<(IF e.instancePath = "" THEN "root" ELSE e.instancePath), ": ", e.message>>
         IN  IF Len(errs) = 1 THEN one ELSE one \o <<"; ">> \o JoinErrors(Tail(errs))

\* ... || 'Validation failed'
ErrorsText(errs) ==
    IF JoinErrors(errs) = <<>> THEN <<"Validation failed">> ELSE JoinErrors(errs)

PolicyRefusal(target) ==
    [ok     |-> FALSE,
     status |-> 403,
     body   |-> [error     |-> <<"Proxy disabled in prod; call from app clients with App Check/Auth">>,
                 target    |-> target,
                 proxyMode |-> "dev-only"],
     error  |-> <<"Production proxy calls are disabled for security">>]

ValidationFailure(errs) ==
    [status |-> 400,
     body   |-> [error |-> <<"Validation failed">>, details |-> ErrorsText(errs)],
     ok     |-> FALSE,
     error  |-> <<"Schema validation failed: ">> \o ErrorsText(errs)]

\* What a tool handler has done when it first yields: it has returned a result
\* ("return"), thrown ("throw"), or it awaits the axios call it issued
\* ("await").  logs are the console.log lines it wrote on the way, validated
\* tells whether it ran the compiled validator.
Return(result, logs, validated) ==
    [kind |-> "return", result |-> result, logs |-> logs, validated |-> validated]

Throw(message) ==
    [kind |-> "throw", message |-> message, logs |-> <<>>, validated |-> FALSE]

Await(tool, method, target, path, logs, validated) ==
    [kind |-> "await", tool |-> tool, target |-> target,
     call |-> [method |-> method, base |-> getApiBase(target), path |-> path],
     logs |-> logs, validated |-> validated]

\* createOrder with the validator run before the policy gate
createOrder_ValidateFirst(payload, target) ==
    LET errs == ValidateErrors(orderCreateSchema, payload)
    IN  IF errs # <<>>
        THEN Return(ValidationFailure(errs),
                    << <<"[MCP] Order validation failed:">> >>, TRUE)
        ELSE IF ~isProxyAllowed(target)
             THEN Return(PolicyRefusal(target), <<>>, TRUE)
             ELSE Await("api.orders.create", "POST", target, "/v1/orders",
                        << <<"[MCP] Creating order via proxy:">> >>, TRUE)

\* createOrder that throws where it is denied or the payload is invalid
createOrder_ThrowsFailures(payload, target) ==
    IF ~isProxyAllowed(target)
    THEN Throw(<<"Production proxy calls are disabled for security">>)
    ELSE LET errs == ValidateErrors(orderCreateSchema, payload)
         IN  IF errs # <<>>
             THEN [kind |-> "throw", logs |-> << <<"[MCP] Order validation failed:">> >>,
                   message |-> <<"Schema validation failed: ">> \o ErrorsText(errs),
                   validated |-> TRUE]
             ELSE Await("api.orders.create", "POST", target, "/v1/orders",
                        << <<"[MCP] Creating order via proxy:">> >>, TRUE)

createOrder(payload, target) ==
    IF ~isProxyAllowed(target)
    THEN Return(PolicyRefusal(target), <<>>, FALSE)
    ELSE LET errs == ValidateErrors(orderCreateSchema, payload)
         IN  IF errs # <<>>
             THEN Return(ValidationFailure(errs),
                         << <<"[MCP] Order validation failed:">> >>, TRUE)
             ELSE Await("api.orders.create", "POST", target, "/v1/orders",
                        << <<"[MCP] Creating order via proxy:">> >>, TRUE)

\* createSubscription that forwards the payload whatever the validator says
createSubscription_IgnoresInvalid(payload, target) ==
    IF ~isProxyAllowed(target)
    THEN Return(PolicyRefusal(target), <<>>, FALSE)
    ELSE Await("api.subscribe.create", "POST", target, "/v1/subscribe",
               << <<"[MCP] Creating subscription via proxy:">> >>, TRUE)

createSubscription(payload, target) ==
    IF ~isProxyAllowed(target)
    THEN Return(PolicyRefusal(target), <<>>, FALSE)
    ELSE LET errs == ValidateErrors(subscribeCreateSchema, payload)
         IN  IF errs # <<>>
             THEN Return(ValidationFailure(errs),
                         << <<"[MCP] Subscription validation failed:">> >>, TRUE)
             ELSE Await("api.subscribe.create", "POST", target, "/v1/subscribe",
                        << <<"[MCP] Creating subscription via proxy:">> >>, TRUE)

healthCheck(target) ==
    Await("healthz", "GET", target, "/healthz",
          << <<"[MCP] Health check for ", target, ":">> >>, FALSE)

\* a healthCheck that passes the body of the response on
healthResult_WithBody(target, response) ==
    [ok |-> response.ok, status |-> response.status, target |-> target,
     body |-> response.body]

\* healthCheck after `await makeRequest': the result it builds from the response
healthResult(target, response) ==
    LET base == [ok |-> response.ok, status |-> response.status, target |-> target]
    IN  IF "error" \in DOMAIN response /\ response.error # <<>>
        THEN ("error" :> response.error) @@ base
        ELSE base

\* schemaMap[name]: an own property, a property inherited from
\* Object.prototype (a function), or undefined
SchemaNames == {"order.create", "subscribe.create"}

InheritedNames == {"toString"}

readSchema(name) ==
    IF name \in SchemaNames THEN Return([schema |-> name], <<>>, FALSE)
    ELSE IF name \in InheritedNames THEN Return([function |-> name], <<>>, FALSE)
    ELSE Throw(<<"Schema '", name, "' not found. Available schemas: ",
                 "order.create", ", ", "subscribe.create">>)

\* readOpenAPI that answers from a copy read at start-up
readOpenAPI_Preloaded == Return([text |-> "openapi.yaml"], <<>>, FALSE)

\* readOpenAPI: fs.readFileSync of the document on every call, inside a try
readOpenAPI ==
    IF contracts.openapi
    THEN Return([text |-> "openapi.yaml"], <<>>, FALSE)
    ELSE Throw(<<"Failed to read OpenAPI contract: ", "ENOENT">>)

\* a getApiBaseUrl that probes the backend it names
getApiBaseUrl_Probes(target) ==
    Await("env.getApiBase", "GET", target, "/healthz", <<>>, FALSE)

getApiBaseUrl(target) ==
    Return([base |-> getApiBase(target), target |-> target], <<>>, FALSE)

\* toolDefinitions: the catalogue, in the order of its keys
toolDefinitions ==
    <<"contracts_read_openapi", "contracts_read_schema", "env_get_api_base",
      "api_orders_create", "api_subscribe_create", "healthz">>

\* inputSchema.required of the catalogue, per tool
requiredOf(tool) ==
    CASE tool = "contracts.readSchema" -> {"name"}
      [] tool \in {"env.getApiBase", "healthz"} -> {"target"}
      [] tool \in {"api.orders.create", "api.subscribe.create"} -> {"payload", "target"}
      [] OTHER -> {}

\* ------------------------------------------------------------ src/server.ts

\* An input line.  json is what JSON.parse makes of it: "invalid" (it throws),
\* "null", "scalar" (a number, a string, a boolean, an array: a value none of
\* whose properties read below is defined) or "object".  The other fields are
\* the members of the object as written on the line, Absent when missing.
NoArgs == [present |-> FALSE, name |-> Absent, payload |-> NoPayload, target |-> Absent]

Args(name, payload, target) ==
    [present |-> TRUE, name |-> name, payload |-> payload, target |-> target]

NoParams == [present |-> FALSE, name |-> Absent, arguments |-> NoArgs]

Params(name, args) == [present |-> TRUE, name |-> name, arguments |-> args]

Line(json, id, method, params) ==
    [json |-> json, id |-> id, method |-> method, params |-> params]

\* JSON.parse and JSON.stringify on the id member.  A number beyond the range
\* of a double parses to Infinity, which is written back as null; an integer
\* beyond 2^53 parses to the nearest double; undefined is not written at all.
ParseId(token) ==
    CASE token = "1e999" -> "Infinity"
      [] token = "9007199254740993" -> "9007199254740992"
      [] OTHER -> token

StringifyId(value) == IF value = "Infinity" THEN "null" ELSE value

\* JSON.stringify(response): a member whose value is undefined is left out
Stringify(response) ==
    LET rest == [m \in (DOMAIN response) \ {"id"} |-> response[m]]
    IN  IF response.id = Absent THEN rest
        ELSE ("id" :> StringifyId(response.id)) @@ rest

\* !value of the source, for a string-valued argument and for a payload
Falsy(value) == value = Absent

FalsyPayload(payload) == payload.type \in {"undefined", "null"}

\* the levels table of log(), with its `|| 1'
LevelOf(level) ==
    LET n == CASE level = "debug" -> 0
               [] level = "info" -> 1
               [] level = "warn" -> 2
               [] level = "error" -> 3
               [] OTHER -> 0
    IN  IF n = 0 THEN 1 ELSE n

\* log that writes only what lies strictly above the configured level
log_StrictlyAbove(level, message) ==
    IF LevelOf(level) > LevelOf(logLevel)
    THEN <<[level |-> level, message |-> message]>>
    ELSE <<>>

\* log(level, message): the lines it adds to stderr
log(level, message) ==
    IF LevelOf(level) >= LevelOf(logLevel)
    THEN <<[level |-> level, message |-> message]>>
    ELSE <<>>

\* callTool that also answers to the underscored name of the orders tool
callTool_UnderscoreAlias(name, args) ==
    CASE name = "contracts.readOpenAPI" -> readOpenAPI
      [] name = "contracts.readSchema" ->
            IF Falsy(args.name) THEN Throw(<<"Schema name is required">>)
            ELSE readSchema(args.name)
      [] name = "env.getApiBase" ->
            IF Falsy(args.target) THEN Throw(<<"Target environment is required">>)
            ELSE getApiBaseUrl(args.target)
      [] name \in {"api.orders.create", "api_orders_create"} ->
            IF FalsyPayload(args.payload) \/ Falsy(args.target)
            THEN Throw(<<"Payload and target are required">>)
            ELSE createOrder(args.payload, args.target)
      [] name = "api.subscribe.create" ->
            IF FalsyPayload(args.payload) \/ Falsy(args.target)
            THEN Throw(<<"Payload and target are required">>)
            ELSE createSubscription(args.payload, args.target)
      [] name = "healthz" ->
            IF Falsy(args.target) THEN Throw(<<"Target environment is required">>)
            ELSE healthCheck(args.target)
      [] OTHER -> Throw(<<"Unknown tool: ", name>>)

\* callTool whose default case leaves the name out of its message
callTool_BareUnknown(name, args) ==
    CASE name = "contracts.readOpenAPI" -> readOpenAPI
      [] name = "contracts.readSchema" ->
            IF Falsy(args.name) THEN Throw(<<"Schema name is required">>)
            ELSE readSchema(args.name)
      [] name = "env.getApiBase" ->
            IF Falsy(args.target) THEN Throw(<<"Target environment is required">>)
            ELSE getApiBaseUrl(args.target)
      [] name = "api.orders.create" ->
            IF FalsyPayload(args.payload) \/ Falsy(args.target)
            THEN Throw(<<"Payload and target are required">>)
            ELSE createOrder(args.payload, args.target)
      [] name = "api.subscribe.create" ->
            IF FalsyPayload(args.payload) \/ Falsy(args.target)
            THEN Throw(<<"Payload and target are required">>)
            ELSE createSubscription(args.payload, args.target)
      [] name = "healthz" ->
            IF Falsy(args.target) THEN Throw(<<"Target environment is required">>)
            ELSE healthCheck(args.target)
      [] OTHER -> Throw(<<"Unknown tool">>)

\* callTool that returns a tool result where healthz lacks its target
callTool_MissingTargetAsResult(name, args) ==
    CASE name = "contracts.readOpenAPI" -> readOpenAPI
      [] name = "contracts.readSchema" ->
            IF Falsy(args.name) THEN Throw(<<"Schema name is required">>)
            ELSE readSchema(args.name)
      [] name = "env.getApiBase" ->
            IF Falsy(args.target) THEN Throw(<<"Target environment is required">>)
            ELSE getApiBaseUrl(args.target)
      [] name = "api.orders.create" ->
            IF FalsyPayload(args.payload) \/ Falsy(args.target)
            THEN Throw(<<"Payload and target are required">>)
            ELSE createOrder(args.payload, args.target)
      [] name = "api.subscribe.create" ->
            IF FalsyPayload(args.payload) \/ Falsy(args.target)
            THEN Throw(<<"Payload and target are required">>)
            ELSE createSubscription(args.payload, args.target)
      [] name = "healthz" ->
            IF Falsy(args.target)
            THEN Return([ok |-> FALSE, error |-> <<"Target environment is required">>],
                        <<>>, FALSE)
            ELSE healthCheck(args.target)
      [] OTHER -> Throw(<<"Unknown tool: ", name>>)

\* callTool that takes dev for a target left out
callTool_TargetDefaultsToDev(name, args) ==
    CASE name = "contracts.readOpenAPI" -> readOpenAPI
      [] name = "contracts.readSchema" ->
            IF Falsy(args.name) THEN Throw(<<"Schema name is required">>)
            ELSE readSchema(args.name)
      [] name = "env.getApiBase" ->
            IF Falsy(args.target) THEN Throw(<<"Target environment is required">>)
            ELSE getApiBaseUrl(args.target)
      [] name = "api.orders.create" ->
            IF FalsyPayload(args.payload)
            THEN Throw(<<"Payload and target are required">>)
            ELSE createOrder(args.payload, IF Falsy(args.target) THEN "dev" ELSE args.target)
      [] name = "api.subscribe.create" ->
            IF FalsyPayload(args.payload) \/ Falsy(args.target)
            THEN Throw(<<"Payload and target are required">>)
            ELSE createSubscription(args.payload, args.target)
      [] name = "healthz" ->
            healthCheck(IF Falsy(args.target) THEN "dev" ELSE args.target)
      [] OTHER -> Throw(<<"Unknown tool: ", name>>)

\* callTool that asks the policy gate before it looks for the payload of an order
callTool_PolicyBeforeStructure(name, args) ==
    CASE name = "contracts.readOpenAPI" -> readOpenAPI
      [] name = "contracts.readSchema" ->
            IF Falsy(args.name) THEN Throw(<<"Schema name is required">>)
            ELSE readSchema(args.name)
      [] name = "env.getApiBase" ->
            IF Falsy(args.target) THEN Throw(<<"Target environment is required">>)
            ELSE getApiBaseUrl(args.target)
      [] name = "api.orders.create" ->
            IF ~Falsy(args.target) /\ ~isProxyAllowed(args.target)
            THEN Return(PolicyRefusal(args.target), <<>>, FALSE)
            ELSE IF FalsyPayload(args.payload) \/ Falsy(args.target)
                 THEN Throw(<<"Payload and target are required">>)
                 ELSE createOrder(args.payload, args.target)
      [] name = "api.subscribe.create" ->
            IF FalsyPayload(args.payload) \/ Falsy(args.target)
            THEN Throw(<<"Payload and target are required">>)
            ELSE createSubscription(args.payload, args.target)
      [] name = "healthz" ->
            IF Falsy(args.target) THEN Throw(<<"Target environment is required">>)
            ELSE healthCheck(args.target)
      [] OTHER -> Throw(<<"Unknown tool: ", name>>)

callTool(name, args) ==
    CASE name = "contracts.readOpenAPI" -> readOpenAPI
      [] name = "contracts.readSchema" ->
            IF Falsy(args.name) THEN Throw(<<"Schema name is required">>)
            ELSE readSchema(args.name)
      [] name = "env.getApiBase" ->
            IF Falsy(args.target) THEN Throw(<<"Target environment is required">>)
            ELSE getApiBaseUrl(args.target)
      [] name = "api.orders.create" ->
            IF FalsyPayload(args.payload) \/ Falsy(args.target)
            THEN Throw(<<"Payload and target are required">>)
            ELSE createOrder(args.payload, args.target)
      [] name = "api.subscribe.create" ->
            IF FalsyPayload(args.payload) \/ Falsy(args.target)
            THEN Throw(<<"Payload and target are required">>)
            ELSE createSubscription(args.payload, args.target)
      [] name = "healthz" ->
            IF Falsy(args.target) THEN Throw(<<"Target environment is required">>)
            ELSE healthCheck(args.target)
      [] OTHER -> Throw(<<"Unknown tool: ", name>>)

\* the names callTool has a case for
CallToolNames ==
    {"contracts.readOpenAPI", "contracts.readSchema", "env.getApiBase",
     "api.orders.create", "api.subscribe.create", "healthz"}

ResultResponse(id, result) == [jsonrpc |-> "2.0", id |-> id, result |-> result]

ErrorResponse(id, code, message, data) ==
    [jsonrpc |-> "2.0", id |-> id,
     error |-> IF data = Absent
               THEN [code |-> code, message |-> message]
               ELSE [code |-> code, message |-> message, data |-> data]]

\* the result member of a tools/call response
\* (JSON.stringify of a function is undefined, and the text member is then
\* left out of the line)
ToolContent(result) ==
    IF "function" \in DOMAIN result
    THEN [content |-> <<[type |-> "text"]>>]
    ELSE [content |-> <<[type |-> "text", text |-> result]>>]

\* a catch block that answers with a null id
CaughtResponse_NullId(id, errorMessage) ==
    ErrorResponse("null", -32603, <<"Internal error">>, errorMessage)

\* the catch block of handleRequest
CaughtResponse(id, errorMessage) ==
    ErrorResponse(id, -32603, <<"Internal error">>, errorMessage)

\* What handleRequest has done when it first yields.  "respond": it returned
\* the response; "await": it waits for the axios call of a tool; "reject": it
\* threw out of its own catch block (request is null, so request.id throws).
\* logs are the console.log lines written to stdout, errlog the log() lines.
Handled(kind, response, pending, logs, errlog, validated) ==
    [kind |-> kind, response |-> response, pending |-> pending,
     logs |-> logs, errlog |-> errlog, validated |-> validated]

NoResponse == [jsonrpc |-> "none"]

NoPending == [tool |-> Absent, target |-> Absent,
              call |-> [method |-> Absent, base |-> Absent, path |-> Absent]]

\* handleRequest without its catch block: what a tool throws rejects
handleRequest_NoCatch(line) ==
    LET id == ParseId(line.id)
    IN  CASE line.json = "null" ->
                Handled("reject", NoResponse, NoPending, <<>>, <<>>, FALSE)
          [] line.method = "tools/list" ->
                Handled("respond", ResultResponse(id, [tools |-> toolDefinitions]),
                        NoPending, <<>>, <<>>, FALSE)
          [] line.method = "tools/call" ->
                IF ~line.params.present
                THEN Handled("respond",
                             CaughtResponse(id, <<"Cannot destructure property 'name' of 'request.params' as it is undefined.">>),
                             NoPending, <<>>,
                             log("error", <<"Request failed: ", "Cannot destructure property 'name' of 'request.params' as it is undefined.">>),
                             FALSE)
                ELSE LET o == callTool(line.params.name,
                                       IF line.params.arguments.present
                                       THEN line.params.arguments ELSE NoArgs)
                     IN  CASE o.kind = "return" ->
                                 Handled("respond",
                                         ResultResponse(id, ToolContent(o.result)),
                                         NoPending, o.logs, <<>>, o.validated)
                           [] o.kind = "throw" ->
                                 Handled("reject", NoResponse, NoPending, o.logs,
                                         <<>>, o.validated)
                           [] OTHER ->
                                 Handled("await", NoResponse,
                                         [tool |-> o.tool, target |-> o.target, call |-> o.call],
                                         o.logs, <<>>, o.validated)
          [] line.method = "initialize" ->
                Handled("respond",
                        ResultResponse(id, [protocolVersion |-> "2024-11-05",
                                            serverInfo |-> "roze-mcp"]),
                        NoPending, <<>>, <<>>, FALSE)
          [] OTHER ->
                Handled("respond",
                        ErrorResponse(id, -32601, <<"Method not found: ", line.method>>, Absent),
                        NoPending, <<>>, <<>>, FALSE)

\* handleRequest whose default case answers with the internal-error code
handleRequest_DefaultInternal(line) ==
    LET id == ParseId(line.id)
    IN  CASE line.json = "null" ->
                Handled("reject", NoResponse, NoPending, <<>>,
                        log("error", <<"Request failed: ",
                                       "Cannot read properties of null (reading 'method')">>),
                        FALSE)
          [] line.method = "tools/list" ->
                Handled("respond", ResultResponse(id, [tools |-> toolDefinitions]),
                        NoPending, <<>>, <<>>, FALSE)
          [] line.method = "tools/call" ->
                IF ~line.params.present
                THEN Handled("respond",
                             CaughtResponse(id, <<"Cannot destructure property 'name' of 'request.params' as it is undefined.">>),
                             NoPending, <<>>,
                             log("error", <<"Request failed: ", "Cannot destructure property 'name' of 'request.params' as it is undefined.">>),
                             FALSE)
                ELSE LET o == callTool(line.params.name,
                                       IF line.params.arguments.present
                                       THEN line.params.arguments ELSE NoArgs)
                     IN  CASE o.kind = "return" ->
                                 Handled("respond",
                                         ResultResponse(id, ToolContent(o.result)),
                                         NoPending, o.logs, <<>>, o.validated)
                           [] o.kind = "throw" ->
                                 Handled("respond", CaughtResponse(id, o.message),
                                         NoPending, o.logs,
                                         log("error", <<"Request failed: ">> \o o.message),
                                         o.validated)
                           [] OTHER ->
                                 Handled("await", NoResponse,
                                         [tool |-> o.tool, target |-> o.target, call |-> o.call],
                                         o.logs, <<>>, o.validated)
          [] line.method = "initialize" ->
                Handled("respond",
                        ResultResponse(id, [protocolVersion |-> "2024-11-05",
                                            serverInfo |-> "roze-mcp"]),
                        NoPending, <<>>, <<>>, FALSE)
          [] OTHER ->
                Handled("respond",
                        ErrorResponse(id, -32603, <<"Internal error">>, Absent),
                        NoPending, <<>>, <<>>, FALSE)

handleRequest(line) ==
    LET id == ParseId(line.id)
    IN  CASE line.json = "null" ->
                Handled("reject", NoResponse, NoPending, <<>>,
                        log("error", <<"Request failed: ",
                                       "Cannot read properties of null (reading 'method')">>),
                        FALSE)
          [] line.method = "tools/list" ->
                Handled("respond", ResultResponse(id, [tools |-> toolDefinitions]),
                        NoPending, <<>>, <<>>, FALSE)
          [] line.method = "tools/call" ->
                IF ~line.params.present
                THEN Handled("respond",
                             CaughtResponse(id, <<"Cannot destructure property 'name' of 'request.params' as it is undefined.">>),
                             NoPending, <<>>,
                             log("error", <<"Request failed: ", "Cannot destructure property 'name' of 'request.params' as it is undefined.">>),
                             FALSE)
                ELSE LET o == callTool(line.params.name,
                                       IF line.params.arguments.present
                                       THEN line.params.arguments ELSE NoArgs)
                     IN  CASE o.kind = "return" ->
                                 Handled("respond",
                                         ResultResponse(id, ToolContent(o.result)),
                                         NoPending, o.logs, <<>>, o.validated)
                           [] o.kind = "throw" ->
                                 Handled("respond", CaughtResponse(id, o.message),
                                         NoPending, o.logs,
                                         log("error", <<"Request failed: ">> \o o.message),
                                         o.validated)
                           [] OTHER ->
                                 Handled("await", NoResponse,
                                         [tool |-> o.tool, target |-> o.target, call |-> o.call],
                                         o.logs, <<>>, o.validated)
          [] line.method = "initialize" ->
                Handled("respond",
                        ResultResponse(id, [protocolVersion |-> "2024-11-05",
                                            serverInfo |-> "roze-mcp"]),
                        NoPending, <<>>, <<>>, FALSE)
          [] OTHER ->
                Handled("respond",
                        ErrorResponse(id, -32601, <<"Method not found: ", line.method>>, Absent),
                        NoPending, <<>>, <<>>, FALSE)

\* a resumption that reduces every gateway result to ok, status and target
resumeRequest_AlwaysSummarises(line, pending, outcome) ==
    ResultResponse(ParseId(line.id),
                   ToolContent(healthResult(pending.target, makeRequest(outcome))))

\* handleRequest resumed when the axios call of its tool settles
resumeRequest(line, pending, outcome) ==
    LET response == makeRequest(outcome)
        result   == IF pending.tool = "healthz"
                    THEN healthResult(pending.target, response)
                    ELSE response
    IN  ResultResponse(ParseId(line.id), ToolContent(result))

\* ------------------------------------------------------------ input lines

IdTokens == {Absent, "1", "2", "null", "1e999", "9007199254740993"}

Targets == {Absent, "dev", "prod", "staging"}

ValidPayload == ObjectPayload("ok", "ok")

\* the tools/call requests of the dispatcher specification: every path through
\* callTool and the tool handlers
ToolCalls ==
    {Params("contracts.readOpenAPI", NoArgs)}
        \cup {Params("contracts.readSchema", Args(n, NoPayload, Absent)) :
                n \in {Absent, "order.create", "toString", "nope"}}
        \cup {Params("env.getApiBase", Args(Absent, NoPayload, t)) : t \in {Absent, "prod"}}
        \cup {Params("healthz", Args(Absent, NoPayload, t)) : t \in Targets}
        \cup {Params(n, Args(Absent, p, t)) :
                n \in {"api.orders.create", "api.subscribe.create"},
                p \in {NoPayload, ValidPayload}, t \in Targets}
        \cup {Params(n, Args(Absent, p, t)) :
                n \in {"api.orders.create", "api.subscribe.create"},
                p \in {StringPayload, ObjectPayload("bad", "ok"), ObjectPayload("missing", "bad")},
                t \in {"dev", "prod"}}
        \cup {Params(n, Args(Absent, ValidPayload, "dev")) :
                n \in {"api_orders_create", "nope", Absent}}

Lines ==
    {Line("invalid", Absent, Absent, NoParams),
     Line("null", Absent, Absent, NoParams),
     Line("scalar", Absent, Absent, NoParams)}
        \cup {Line("object", "1", m, NoParams) :
                m \in {"initialize", "tools/list", "tools/call", "ping"}}
        \cup {Line("object", "1", "tools/call", p) : p \in ToolCalls}

\* validate.errors of the two compiled validators: null (here <<>>) until a
\* payload is rejected, and again after one is accepted
NoErrors == [order |-> <<>>, subscribe |-> <<>>]

\* the validator the handler of a tool runs
ValidatorOf(tool) == IF tool = "api.orders.create" THEN "order" ELSE "subscribe"

\* what the validators hold after handleRequest ran on a line up to its
\* first yield: the one it ran holds the errors of the payload of that line
errorsAfter(line, h) ==
    IF h.validated
    THEN [validatorErrors EXCEPT
            ![ValidatorOf(line.params.name)] =
                ValidateErrors(IF line.params.name = "api.orders.create"
                               THEN orderCreateSchema ELSE subscribeCreateSchema,
                               line.params.arguments.payload)]
    ELSE validatorErrors

\* ------------------------------------------------------------------ actions

\* the process while it serves, and after the module load of mcp.ts threw
\* (JSON.parse(fs.readFileSync(...)) of a schema file): node exits with code 1
\* before the server is constructed
Running == [status |-> "running", input |-> "open"]

StartupFailure == [status |-> "exited", input |-> "open", code |-> 1, by |-> "module load"]

AllReadable == [openapi |-> TRUE, schemas |-> TRUE]

\* the environments the server is started in: every PROXY_MODE with the
\* contract files in place, and one file or the other missing
Environments ==
    {<<e, AllReadable>> : e \in EnvProxyModes}
        \cup {<<Absent, [openapi |-> FALSE, schemas |-> TRUE]>>,
              <<Absent, [openapi |-> TRUE, schemas |-> FALSE]>>}

Init ==
    /\ \E e \in Environments : env = e[1] /\ contracts = e[2]
    /\ proc = IF contracts.schemas THEN Running ELSE StartupFailure
    /\ validatorErrors = NoErrors
    /\ proxyMode = envSchema(env)
    /\ logLevel \in LogLevels
    /\ reqs = <<>>
    /\ stdout = <<>>
    /\ stderr = IF contracts.schemas THEN log("info", <<"MCP server ready">>) ELSE <<>>
    /\ sent = <<>>
    /\ gateway = NoCall

StdoutLogs(i, logs) ==
    [k \in 1..Len(logs) |-> [for |-> i, kind |-> "log", text |-> logs[k], json |-> NoResponse]]

\* a listener that reads no line while a backend call is unresolved
ReceiveLine_Blocking(line) ==
    /\ proc.status = "running" /\ proc.input = "open"
    /\ Len(reqs) < MaxLines
    /\ \A n \in 1..Len(reqs) : reqs[n].pc # "waiting"
    /\ LET i == Len(reqs) + 1
       IN  IF line.json = "invalid"
           THEN /\ reqs' = Append(reqs, [line |-> line, pc |-> "dropped",
                                         response |-> NoResponse, pending |-> NoPending,
                                         validated |-> FALSE])
                /\ stderr' = stderr \o log("error", <<"Failed to parse request: ">>)
                /\ UNCHANGED <<stdout, sent, validatorErrors>>
           ELSE LET h == handleRequest(line)
                IN  /\ reqs' = Append(reqs,
                           [line |-> line,
                            pc |-> CASE h.kind = "respond" -> "ready"
                                     [] h.kind = "await" -> "waiting"
                                     [] OTHER -> "rejected",
                            response |-> h.response, pending |-> h.pending,
                            validated |-> h.validated])
                    /\ stdout' = stdout \o StdoutLogs(i, h.logs)
                    /\ stderr' = stderr \o h.errlog
                    /\ validatorErrors' = errorsAfter(line, h)
                    /\ sent' = IF h.kind = "await"
                               THEN Append(sent, [for |-> i, method |-> h.pending.call.method,
                                                  base |-> h.pending.call.base,
                                                  path |-> h.pending.call.path])
                               ELSE sent
    /\ UNCHANGED <<env, contracts, proc, proxyMode, logLevel, gateway>>

\* a listener that accepts initialize once only
ReceiveLine_InitializeOnce(line) ==
    /\ proc.status = "running" /\ proc.input = "open"
    /\ Len(reqs) < MaxLines
    /\ LET i == Len(reqs) + 1
       IN  IF line.json = "invalid"
           THEN /\ reqs' = Append(reqs, [line |-> line, pc |-> "dropped",
                                         response |-> NoResponse, pending |-> NoPending,
                                         validated |-> FALSE])
                /\ stderr' = stderr \o log("error", <<"Failed to parse request: ">>)
                /\ UNCHANGED <<stdout, sent, validatorErrors>>
           ELSE LET h == IF /\ line.method = "initialize"
                              /\ \E n \in 1..Len(reqs) : reqs[n].line.method = "initialize"
                           THEN Handled("respond",
                                        CaughtResponse(ParseId(line.id), <<"Already initialized">>),
                                        NoPending, <<>>, <<>>, FALSE)
                           ELSE handleRequest(line)
                IN  /\ reqs' = Append(reqs,
                           [line |-> line,
                            pc |-> CASE h.kind = "respond" -> "ready"
                                     [] h.kind = "await" -> "waiting"
                                     [] OTHER -> "rejected",
                            response |-> h.response, pending |-> h.pending,
                            validated |-> h.validated])
                    /\ stdout' = stdout \o StdoutLogs(i, h.logs)
                    /\ stderr' = stderr \o h.errlog
                    /\ validatorErrors' = errorsAfter(line, h)
                    /\ sent' = IF h.kind = "await"
                               THEN Append(sent, [for |-> i, method |-> h.pending.call.method,
                                                  base |-> h.pending.call.base,
                                                  path |-> h.pending.call.path])
                               ELSE sent
    /\ UNCHANGED <<env, contracts, proc, proxyMode, logLevel, gateway>>

\* a listener whose handler reads validate.errors as the line before left it
ReceiveLine_ReadsErrorsLate(line) ==
    /\ proc.status = "running" /\ proc.input = "open"
    /\ Len(reqs) < MaxLines
    /\ LET i == Len(reqs) + 1
       IN  IF line.json = "invalid"
           THEN /\ reqs' = Append(reqs, [line |-> line, pc |-> "dropped",
                                         response |-> NoResponse, pending |-> NoPending,
                                         validated |-> FALSE])
                /\ stderr' = stderr \o log("error", <<"Failed to parse request: ">>)
                /\ UNCHANGED <<stdout, sent, validatorErrors>>
           ELSE LET h0 == handleRequest(line)
                    late == ErrorsText(validatorErrors[ValidatorOf(line.params.name)])
                    h == IF h0.validated /\ h0.kind = "respond"
                         THEN [h0 EXCEPT !.response.result.content[1].text.body.details = late]
                         ELSE h0
                IN  /\ reqs' = Append(reqs,
                           [line |-> line,
                            pc |-> CASE h.kind = "respond" -> "ready"
                                     [] h.kind = "await" -> "waiting"
                                     [] OTHER -> "rejected",
                            response |-> h.response, pending |-> h.pending,
                            validated |-> h.validated])
                    /\ stdout' = stdout \o StdoutLogs(i, h.logs)
                    /\ stderr' = stderr \o h.errlog
                    /\ validatorErrors' = errorsAfter(line, h)
                    /\ sent' = IF h.kind = "await"
                               THEN Append(sent, [for |-> i, method |-> h.pending.call.method,
                                                  base |-> h.pending.call.base,
                                                  path |-> h.pending.call.path])
                               ELSE sent
    /\ UNCHANGED <<env, contracts, proc, proxyMode, logLevel, gateway>>

\* the 'line' listener of setupHandlers up to its first yield: JSON.parse and
\* the synchronous part of handleRequest
ReceiveLine(line) ==
    /\ proc.status = "running" /\ proc.input = "open"
    /\ Len(reqs) < MaxLines
    /\ LET i == Len(reqs) + 1
       IN  IF line.json = "invalid"
           THEN /\ reqs' = Append(reqs, [line |-> line, pc |-> "dropped",
                                         response |-> NoResponse, pending |-> NoPending,
                                         validated |-> FALSE])
                /\ stderr' = stderr \o log("error", <<"Failed to parse request: ">>)
                /\ UNCHANGED <<stdout, sent, validatorErrors>>
           ELSE LET h == handleRequest(line)
                IN  /\ reqs' = Append(reqs,
                           [line |-> line,
                            pc |-> CASE h.kind = "respond" -> "ready"
                                     [] h.kind = "await" -> "waiting"
                                     [] OTHER -> "rejected",
                            response |-> h.response, pending |-> h.pending,
                            validated |-> h.validated])
                    /\ stdout' = stdout \o StdoutLogs(i, h.logs)
                    /\ stderr' = stderr \o h.errlog
                    /\ validatorErrors' = errorsAfter(line, h)
                    /\ sent' = IF h.kind = "await"
                               THEN Append(sent, [for |-> i, method |-> h.pending.call.method,
                                                  base |-> h.pending.call.base,
                                                  path |-> h.pending.call.path])
                               ELSE sent
    /\ UNCHANGED <<env, contracts, proc, proxyMode, logLevel, gateway>>

\* a settlement that hands its response to every request still waiting
BackendSettles_SharesResponse(i, outcome) ==
    /\ proc.status = "running"
    /\ i \in DOMAIN reqs
    /\ reqs[i].pc = "waiting"
    /\ reqs' = [j \in DOMAIN reqs |->
                  IF reqs[j].pc = "waiting"
                  THEN [reqs[j] EXCEPT !.pc = "ready",
                                       !.response = resumeRequest(reqs[i].line, reqs[i].pending, outcome)]
                  ELSE reqs[j]]
    /\ UNCHANGED <<env, contracts, proc, validatorErrors, proxyMode, logLevel, stdout, stderr, sent, gateway>>

\* the axios promise of request i settles and handleRequest runs to its return
BackendSettles(i, outcome) ==
    /\ proc.status = "running"
    /\ i \in DOMAIN reqs
    /\ reqs[i].pc = "waiting"
    /\ reqs' = [reqs EXCEPT ![i].pc = "ready",
                            ![i].response = resumeRequest(reqs[i].line, reqs[i].pending, outcome)]
    /\ UNCHANGED <<env, contracts, proc, validatorErrors, proxyMode, logLevel, stdout, stderr, sent, gateway>>

\* sendResponse: the listener, resumed with the response, writes it
SendResponse(i) ==
    /\ proc.status = "running"
    /\ i \in DOMAIN reqs
    /\ reqs[i].pc = "ready"
    /\ stdout' = Append(stdout, [for |-> i, kind |-> "response", text |-> <<>>,
                                 json |-> Stringify(reqs[i].response)])
    /\ reqs' = [reqs EXCEPT ![i].pc = "done"]
    /\ UNCHANGED <<env, contracts, proc, validatorErrors, proxyMode, logLevel, stderr, sent, gateway>>

\* the catch of the listener, reached by a rejected handleRequest
ListenerCatches(i) ==
    /\ proc.status = "running"
    /\ i \in DOMAIN reqs
    /\ reqs[i].pc = "rejected"
    /\ stderr' = stderr \o log("error", <<"Failed to parse request: ">>)
    /\ reqs' = [reqs EXCEPT ![i].pc = "dropped"]
    /\ UNCHANGED <<env, contracts, proc, validatorErrors, proxyMode, logLevel, stdout, sent, gateway>>

Next ==
    \/ \E line \in Lines : ReceiveLine(line)
    \/ \E i \in 1..MaxLines, outcome \in AxiosOutcomes : BackendSettles(i, outcome)
    \/ \E i \in 1..MaxLines : SendResponse(i)
    \/ \E i \in 1..MaxLines : ListenerCatches(i)

Spec == Init /\ [][Next]_vars

\* The envelope specification: every form of the id member, on a few requests.
EnvelopeLines ==
    {Line("invalid", Absent, Absent, NoParams),
     Line("null", Absent, Absent, NoParams),
     Line("scalar", Absent, Absent, NoParams)}
        \cup {Line("object", i, m, NoParams) :
                i \in IdTokens, m \in {"initialize", "ping", "tools/call"}}
        \cup {Line("object", i, "tools/call", Params("healthz", Args(Absent, NoPayload, "dev"))) :
                i \in IdTokens}

NextEnvelope ==
    \/ \E line \in EnvelopeLines : ReceiveLine(line)
    \/ \E i \in 1..MaxLines, outcome \in AxiosOutcomes : BackendSettles(i, outcome)
    \/ \E i \in 1..MaxLines : SendResponse(i)
    \/ \E i \in 1..MaxLines : ListenerCatches(i)

SpecEnvelope == Init /\ [][NextEnvelope]_vars

\* The fair specification: the event loop runs every continuation that is
\* queued, and the axios call settles (its timeout of 30 s bounds it).
LiveLines ==
    {Line("null", Absent, Absent, NoParams),
     Line("object", "1", "tools/call", NoParams),
     Line("object", "1", "tools/call", Params("nope", Args(Absent, ValidPayload, "dev"))),
     Line("object", "1", "tools/call", Params("healthz", Args(Absent, NoPayload, Absent))),
     Line("object", "1", "tools/call", Params("healthz", Args(Absent, NoPayload, "prod"))),
     Line("object", "1", "tools/call", Params("api.orders.create", Args(Absent, ValidPayload, "dev"))),
     Line("object", "1", "tools/call", Params("api.orders.create", Args(Absent, ValidPayload, "prod"))),
     Line("object", "1", "tools/call",
          Params("api.subscribe.create", Args(Absent, ObjectPayload("bad", "ok"), "dev")))}

NextLive ==
    \/ \E line \in LiveLines : ReceiveLine(line)
    \/ \E i \in 1..MaxLines, outcome \in AxiosOutcomes : BackendSettles(i, outcome)
    \/ \E i \in 1..MaxLines : SendResponse(i)
    \/ \E i \in 1..MaxLines : ListenerCatches(i)

FairSpec ==
    /\ Init
    /\ [][NextLive]_vars
    /\ \A i \in 1..MaxLines :
          /\ WF_vars(\E outcome \in AxiosOutcomes : BackendSettles(i, outcome))
          /\ WF_vars(SendResponse(i))
          /\ WF_vars(ListenerCatches(i))

\* The process specification: the handlers of setupErrorHandling.  A handler
\* runs to its process.exit without yielding, so nothing else runs between
\* its steps.
Signals == {"SIGINT", "SIGTERM"}

Faults == {"uncaughtException", "unhandledRejection"}

\* a signal handler that goes straight to process.exit
Signal_SkipsClose(sig) ==
    /\ proc.status = "running"
    /\ stderr' = stderr \o log("info", <<"Received ", sig, ", shutting down gracefully...">>)
    /\ proc' = [status |-> "handling", input |-> proc.input, by |-> sig, pc |-> "exit"]
    /\ UNCHANGED <<env, contracts, validatorErrors, proxyMode, logLevel, reqs, stdout, sent, gateway>>

\* process.on('SIGINT' / 'SIGTERM'): the handler starts and logs
Signal(sig) ==
    /\ proc.status = "running"
    /\ stderr' = stderr \o log("info", <<"Received ", sig, ", shutting down gracefully...">>)
    /\ proc' = [status |-> "handling", input |-> proc.input, by |-> sig, pc |-> "close"]
    /\ UNCHANGED <<env, contracts, validatorErrors, proxyMode, logLevel, reqs, stdout, sent, gateway>>

\* this.rl.close()
CloseInput ==
    /\ proc.status = "handling" /\ proc.pc = "close"
    /\ proc' = [proc EXCEPT !.input = "closed", !.pc = "exit"]
    /\ UNCHANGED <<env, contracts, validatorErrors, proxyMode, logLevel, reqs, stdout, stderr, sent, gateway>>

\* process.on('uncaughtException' / 'unhandledRejection'): the handler starts
\* and logs the error thrown, or the reason of the rejection
Fault(kind) ==
    /\ proc.status = "running"
    /\ stderr' = stderr \o log("error",
                               <<IF kind = "uncaughtException" THEN "Uncaught exception: "
                                 ELSE "Unhandled rejection: ", "x">>)
    /\ proc' = [status |-> "handling", input |-> proc.input, by |-> kind, pc |-> "exit"]
    /\ UNCHANGED <<env, contracts, validatorErrors, proxyMode, logLevel, reqs, stdout, sent, gateway>>

\* process.exit(0) of the signal handlers, process.exit(1) of the fault handlers
Exit ==
    /\ proc.status = "handling" /\ proc.pc = "exit"
    /\ proc' = [status |-> "exited", input |-> proc.input, by |-> proc.by,
                code |-> IF proc.by \in Signals THEN 0 ELSE 1]
    /\ UNCHANGED <<env, contracts, validatorErrors, proxyMode, logLevel, reqs, stdout, stderr, sent, gateway>>

ProcessLines ==
    {Line("invalid", Absent, Absent, NoParams),
     Line("null", Absent, Absent, NoParams),
     Line("object", "1", "initialize", NoParams),
     Line("object", "1", "tools/call", Params("healthz", Args(Absent, NoPayload, "dev")))}

NextProcess ==
    \/ \E line \in ProcessLines : ReceiveLine(line)
    \/ \E i \in 1..MaxLines, outcome \in AxiosOutcomes : BackendSettles(i, outcome)
    \/ \E i \in 1..MaxLines : SendResponse(i)
    \/ \E i \in 1..MaxLines : ListenerCatches(i)
    \/ \E sig \in Signals : Signal(sig)
    \/ CloseInput
    \/ \E kind \in Faults : Fault(kind)
    \/ Exit

SpecProcess == Init /\ [][NextProcess]_vars

\* The gateway specification: the operations of the two transport strategies,
\* each called directly with every outcome of its backend.
IsProxyAllowed(target) ==
    /\ gateway' = [op |-> "isProxyAllowed", target |-> target,
                   result |-> [ok |-> isProxyAllowed(target)]]
    /\ UNCHANGED <<env, contracts, proc, validatorErrors, proxyMode, logLevel, reqs, stdout, stderr, sent>>

\* the statuses on both sides of the bounds of `ok', and the bodies, with
\* which makeRequest is called directly
BoundaryStatuses == {199, 200, 204, 299, 300, 404, 500}

StatusOutcomes ==
    [kind : {"response"}, status : BoundaryStatuses, message : {<<>>}, data : ResponseData]

MakeRequest(outcome) ==
    /\ gateway' = [op |-> "makeRequest", outcome |-> outcome, result |-> makeRequest(outcome)]
    /\ UNCHANGED <<env, contracts, proc, validatorErrors, proxyMode, logLevel, reqs, stdout, stderr, sent>>

CallHealthz(outcome) ==
    /\ gateway' = [op |-> "healthz", outcome |-> outcome, result |-> callHealthz(outcome)]
    /\ UNCHANGED <<env, contracts, proc, validatorErrors, proxyMode, logLevel, reqs, stdout, stderr, sent>>

CallCreateOrder(payload, outcome) ==
    /\ gateway' = [op |-> "createOrder", outcome |-> outcome,
                   result |-> callCreateOrder(payload, outcome)]
    /\ UNCHANGED <<env, contracts, proc, validatorErrors, proxyMode, logLevel, reqs, stdout, stderr, sent>>

CallCreateSubscription(payload, outcome) ==
    /\ gateway' = [op |-> "createSubscription", outcome |-> outcome,
                   result |-> callCreateSubscription(payload, outcome)]
    /\ UNCHANGED <<env, contracts, proc, validatorErrors, proxyMode, logLevel, reqs, stdout, stderr, sent>>

NextGateway ==
    \/ \E target \in Targets : IsProxyAllowed(target)
    \/ \E outcome \in AxiosOutcomes \cup StatusOutcomes : MakeRequest(outcome)
    \/ \E outcome \in CallableOutcomes : CallHealthz(outcome)
    \/ \E outcome \in CallableOutcomes : CallCreateOrder(ValidPayload, outcome)
    \/ \E outcome \in CallableOutcomes : CallCreateSubscription(ValidPayload, outcome)

SpecGateway == Init /\ [][NextGateway]_vars

\* The log specification: log called directly with every level, at every
\* configured level.
MaxLogLines == 3

LogMessages == {<<"MCP server ready">>, <<"Request failed: ">>}

Log(level, message) ==
    /\ proc.status = "running"
    /\ Len(stderr) < MaxLogLines
    /\ stderr' = stderr \o log(level, message)
    /\ gateway' = [op |-> "log", level |-> level, message |-> message,
                   result |-> log(level, message)]
    /\ UNCHANGED <<env, contracts, proc, validatorErrors, proxyMode, logLevel, reqs, stdout, sent>>

NextLog == \E level \in LogLevels, message \in LogMessages : Log(level, message)

SpecLog == Init /\ [][NextLog]_vars

\* ------------------------------------------------- reading the state

Answered(i) == reqs[i].pc \in {"ready", "done"}

IsToolsCall(i) ==
    reqs[i].line.json = "object" /\ reqs[i].line.method = "tools/call"

ToolOf(i) == reqs[i].line.params.name

ArgsOf(i) == reqs[i].line.params.arguments

IsCallOf(i, tools) ==
    IsToolsCall(i) /\ reqs[i].line.params.present /\ ToolOf(i) \in tools

Proxied == {"api.orders.create", "api.subscribe.create"}

SchemaOf(tool) ==
    IF tool = "api.orders.create" THEN orderCreateSchema ELSE subscribeCreateSchema

\* the backend requests sent for line i
SentFor(i) == {k \in 1..Len(sent) : sent[k].for = i}

\* the response lines written for line i
ResponsesFor(i) ==
    {k \in 1..Len(stdout) : stdout[k].for = i /\ stdout[k].kind = "response"}

HasResult(i) == "result" \in DOMAIN reqs[i].response

HasError(i) == "error" \in DOMAIN reqs[i].response

\* the tool result carried by the response of line i
ToolResult(i) == reqs[i].response.result.content[1].text

\* -------------------------------------------------------------------- C1

\* C1 as stated: under the dev-only policy no backend request goes to the
\* prod base address, whatever the tool and the arguments.
C1_NoProdRequest ==
    proxyMode = "dev-only" =>
        \A k \in 1..Len(sent) : sent[k].base # apiBaseProd

\* C1 as amended: under the dev-only policy no api.orders.create or
\* api.subscribe.create call causes a backend request to the prod base
\* address; every request that reaches the prod base address is the GET
\* /healthz of a healthz call whose target is not dev.
C1_ProxyNeverReachesProd ==
    proxyMode = "dev-only" =>
        \A k \in 1..Len(sent) :
            LET i == sent[k].for
            IN  /\ IsCallOf(i, Proxied) => sent[k].base = apiBaseDev
                /\ sent[k].base = apiBaseProd =>
                      /\ IsCallOf(i, {"healthz"})
                      /\ ArgsOf(i).target # "dev"
                      /\ sent[k].method = "GET" /\ sent[k].path = "/healthz"

C1_Witness ==
    /\ proxyMode = "dev-only"
    /\ \E i \in 1..Len(reqs) :
          /\ IsCallOf(i, Proxied)
          /\ ArgsOf(i).target = "prod" /\ ~FalsyPayload(ArgsOf(i).payload)
          /\ reqs[i].pc = "done" /\ SentFor(i) = {}
    /\ \E k \in 1..Len(sent) : sent[k].base = apiBaseProd

\* -------------------------------------------------------------------- C2

IsRefusal(i) ==
    /\ HasResult(i)
    /\ LET r == ToolResult(i)
       IN  /\ DOMAIN r = {"ok", "status", "body", "error"}
           /\ r.ok = FALSE /\ r.status = 403
           /\ DOMAIN r.body = {"error", "target", "proxyMode"}
           /\ r.body.target = ArgsOf(i).target
           /\ r.body.proxyMode = "dev-only"

Disallowed(target) == target # Absent /\ target # "dev"

\* C2 as stated: under dev-only, every api.orders.create / api.subscribe.create
\* call whose target is disallowed returns the structured refusal, and neither
\* schema validation nor a backend request happens in that call.
C2_EveryDisallowedRefused ==
    proxyMode = "dev-only" =>
        \A i \in 1..Len(reqs) :
            (IsCallOf(i, Proxied) /\ Disallowed(ArgsOf(i).target)) =>
                /\ Answered(i) => IsRefusal(i)
                /\ ~reqs[i].validated
                /\ SentFor(i) = {}

\* C2 as amended: under dev-only, every such call that carries a payload and
\* whose target is disallowed returns the structured refusal; one without a
\* payload fails the structural check with "Payload and target are required"
\* as a JSON-RPC error; in both cases neither schema validation nor a backend
\* request happens in that call.
C2_DisallowedRefusedAfterStructuralCheck ==
    proxyMode = "dev-only" =>
        \A i \in 1..Len(reqs) :
            (IsCallOf(i, Proxied) /\ Disallowed(ArgsOf(i).target)) =>
                /\ Answered(i) =>
                      IF FalsyPayload(ArgsOf(i).payload)
                      THEN /\ HasError(i)
                           /\ reqs[i].response.error.data = <<"Payload and target are required">>
                      ELSE IsRefusal(i)
                /\ ~reqs[i].validated
                /\ SentFor(i) = {}

C2_Witness ==
    /\ proxyMode = "dev-only"
    /\ \E i \in 1..Len(reqs) :
          /\ IsCallOf(i, Proxied) /\ ArgsOf(i).target = "prod"
          /\ ArgsOf(i).payload = ObjectPayload("bad", "ok")
          /\ reqs[i].pc = "done" /\ IsRefusal(i)

\* -------------------------------------------------------------------- C3

\* the payload of call i was handed to the compiled validator and failed
FailedValidation(i) ==
    /\ IsCallOf(i, Proxied)
    /\ reqs[i].validated
    /\ ValidateErrors(SchemaOf(ToolOf(i)), ArgsOf(i).payload) # <<>>

\* C3: whenever the payload of an api.orders.create / api.subscribe.create
\* call fails schema validation, the tool result is ok=false, status 400,
\* body.error "Validation failed" with a details string made of one
\* "path: message" pair per error (joined by "; "), and no backend request is
\* sent for that call.
C3_ValidationFailureNeverForwarded ==
    \A i \in 1..Len(reqs) :
        FailedValidation(i) =>
            /\ SentFor(i) = {}
            /\ reqs[i].pc \in {"ready", "done"}
            /\ HasResult(i)
            /\ LET r    == ToolResult(i)
                   errs == ValidateErrors(SchemaOf(ToolOf(i)), ArgsOf(i).payload)
                   d    == r.body.details
               IN  /\ r.ok = FALSE /\ r.status = 400
                   /\ r.body.error = <<"Validation failed">>
                   /\ Len(d) = 4 * Len(errs) - 1
                   /\ \A k \in 1..Len(errs) :
                         /\ d[4 * k - 3] = (IF errs[k].instancePath = "" THEN "root"
                                            ELSE errs[k].instancePath)
                         /\ d[4 * k - 2] = ": "
                         /\ d[4 * k - 1] = errs[k].message
                         /\ k < Len(errs) => d[4 * k] = "; "

C3_Witness ==
    \E i \in 1..Len(reqs) :
        /\ FailedValidation(i)
        /\ ArgsOf(i).payload = ObjectPayload("missing", "bad")
        /\ ToolOf(i) = "api.orders.create"
        /\ reqs[i].pc = "done"

\* -------------------------------------------------------------------- C4

Finished(i) == reqs[i].pc \in {"done", "dropped"}

\* C5: an input line that parses as JSON (an object, null, a number, an
\* array) yields exactly one response line, never zero and never two; a line
\* that does not parse yields none.
C5_ExactlyOneResponsePerJsonLine ==
    \A i \in 1..Len(reqs) :
        /\ Cardinality(ResponsesFor(i)) <= 1
        /\ Finished(i) =>
              Cardinality(ResponsesFor(i)) = (IF reqs[i].line.json = "invalid" THEN 0 ELSE 1)

\* -------------------------------------------------------------------- C6

\* C6: every line written to stdout is a complete JSON-RPC 2.0 response
\* object with jsonrpc, id and exactly one of result and error; no other line
\* (a log line) is written there.
C6_StdoutHoldsOnlyResponses ==
    \A k \in 1..Len(stdout) :
        /\ stdout[k].kind = "response"
        /\ {"jsonrpc", "id"} \subseteq DOMAIN stdout[k].json
        /\ ("result" \in DOMAIN stdout[k].json) # ("error" \in DOMAIN stdout[k].json)

\* -------------------------------------------------------------------- C7

\* C7: every tools/call request eventually receives a response line; a
\* backend call that does not answer settles when the transport timeout
\* fires, so no request stays in flight for ever.
C7_EveryToolsCallAnswered ==
    \A i \in 1..MaxLines :
        (i \in DOMAIN reqs /\ IsToolsCall(i)) ~> (i \in DOMAIN reqs /\ ResponsesFor(i) # {})

C7_Witness ==
    \E i \in 1..Len(reqs) :
        /\ IsCallOf(i, {"healthz"})
        /\ ResponsesFor(i) # {}
        /\ HasResult(i)
        /\ ToolResult(i).ok = FALSE /\ ToolResult(i).status = 0
        /\ "error" \in DOMAIN ToolResult(i)

\* -------------------------------------------------------------------- C8

\* a match of one of the four expressions whose value is not the mask
HasSecret(text) ==
    \E p \in 1..Len(text), k \in 1..Len(Keywords) :
        LET n == MatchLen(Keywords[k], SubSeq(text, p, Len(text)))
        IN  n > 0 /\ SubSeq(text, p + 2, p + n - 1) # <<"***">>

\* C8: no error text returned to the client holds an unredacted secret-like
\* substring: not the error of a GatewayResult of either transport strategy,
\* not the error of a tool result, not the data of a JSON-RPC error.
C8_NoSecretInErrorText ==
    /\ "error" \in DOMAIN gateway.result => ~HasSecret(gateway.result.error)
    /\ \A i \in 1..Len(reqs) :
          Answered(i) =>
              /\ (HasError(i) /\ "data" \in DOMAIN reqs[i].response.error) =>
                    ~HasSecret(reqs[i].response.error.data)
              /\ (HasResult(i) /\ IsCallOf(i, Proxied \cup {"healthz"})
                      /\ "error" \in DOMAIN ToolResult(i)) =>
                    ~HasSecret(ToolResult(i).error)

\* -------------------------------------------------------------------- C9

UnknownToolCall(i) ==
    IsToolsCall(i) /\ reqs[i].line.params.present /\ ToolOf(i) \notin CallToolNames

C10_UnknownToolListsRegistered ==
    \A i \in 1..Len(reqs) :
        (UnknownToolCall(i) /\ Answered(i)) =>
            /\ ToolOf(i) \in Range(reqs[i].response.error.data)
            /\ \A t \in CallToolNames : t \in Range(reqs[i].response.error.data)

\* C10 as amended: the unknown-tool failure names the requested tool and
\* nothing else; it lists no registered tool name.
C10_UnknownToolNamesOnlyTheTool ==
    \A i \in 1..Len(reqs) :
        (UnknownToolCall(i) /\ Answered(i)) =>
            /\ reqs[i].response.error.data = <<"Unknown tool: ", ToolOf(i)>>
            /\ \A t \in CallToolNames : t \notin Range(reqs[i].response.error.data)

C10_Witness ==
    \E i \in 1..Len(reqs) :
        /\ UnknownToolCall(i) /\ ToolOf(i) = "nope"
        /\ \E k \in ResponsesFor(i) : stdout[k].json.error.data = <<"Unknown tool: ", "nope">>

\* -------------------------------------------------------------------- C11

\* the dispatch of line i raised a fault: request.method read on null,
\* request.params destructured while undefined, or a tool that threw
Faulted(i) ==
    \/ reqs[i].line.json = "null"
    \/ /\ IsToolsCall(i)
       /\ \/ ~reqs[i].line.params.present
          \/ callTool(ToolOf(i), IF ArgsOf(i).present THEN ArgsOf(i) ELSE NoArgs).kind = "throw"

\* C11: every fault raised while dispatching a request line is answered with
\* the JSON-RPC error -32603 "Internal error" whose data is the fault's
\* message.
C11_DispatchFaultBecomesInternalError ==
    \A i \in 1..Len(reqs) :
        (Faulted(i) /\ Finished(i)) =>
            \E k \in ResponsesFor(i) :
                /\ "error" \in DOMAIN stdout[k].json
                /\ stdout[k].json.error.code = -32603
                /\ stdout[k].json.error.message = <<"Internal error">>
                /\ "data" \in DOMAIN stdout[k].json.error

\* -------------------------------------------------------------------- C12

KnownMethods == {"initialize", "tools/list", "tools/call"}

\* line i is a JSON value whose method member is none of the known methods
UnknownMethod(i) ==
    reqs[i].line.json \in {"object", "scalar"} /\ reqs[i].line.method \notin KnownMethods

\* C12: a request whose method is none of initialize, tools/list and
\* tools/call is answered with the JSON-RPC error -32601 "Method not found:
\* <method>" carrying request.id, written with the id of the line when that
\* id is a string, null or an exact number; a request received after it is
\* served as usual.
C12_UnknownMethodNotFound ==
    \A i \in 1..Len(reqs) :
        UnknownMethod(i) =>
            /\ reqs[i].pc \in {"ready", "done"}
            /\ reqs[i].response.id = ParseId(reqs[i].line.id)
            /\ HasError(i)
            /\ reqs[i].response.error.code = -32601
            /\ reqs[i].response.error.message = <<"Method not found: ", reqs[i].line.method>>
            /\ reqs[i].pc = "done" =>
                  \E k \in ResponsesFor(i) :
                      /\ stdout[k].json.error.code = -32601
                      /\ reqs[i].line.id \in {"1", "2", "null"} =>
                            stdout[k].json.id = reqs[i].line.id
            /\ \A j \in (i + 1)..Len(reqs) :
                  (reqs[j].line.json = "object" /\ reqs[j].line.method = "initialize") =>
                      /\ reqs[j].pc \in {"ready", "done"}
                      /\ HasResult(j)

C12_Witness ==
    /\ Len(reqs) = 2
    /\ UnknownMethod(1) /\ reqs[1].line.method = "ping" /\ reqs[1].line.id = "2"
    /\ reqs[1].pc = "done"
    /\ \E k \in ResponsesFor(1) :
          stdout[k].json.error.code = -32601 /\ stdout[k].json.id = "2"
    /\ reqs[2].line.method = "initialize" /\ reqs[2].pc = "done"
    /\ \E k \in ResponsesFor(2) : "result" \in DOMAIN stdout[k].json

\* -------------------------------------------------------------------- C13

\* call i reached the policy gate of its handler and was denied there
PolicyDenied(i) ==
    /\ IsCallOf(i, Proxied)
    /\ ~FalsyPayload(ArgsOf(i).payload) /\ ~Falsy(ArgsOf(i).target)
    /\ ~isProxyAllowed(ArgsOf(i).target)

\* C13: a schema-validation failure and a policy denial are delivered in the
\* result member of the JSON-RPC response, as a tool result with ok=false; the
\* response has no error member.
C13_FailuresAreOrdinaryResults ==
    \A i \in 1..Len(reqs) :
        (FailedValidation(i) \/ PolicyDenied(i)) =>
            /\ reqs[i].pc \in {"ready", "done"}
            /\ HasResult(i) /\ ~HasError(i)
            /\ ToolResult(i).ok = FALSE
            /\ ToolResult(i).status = (IF PolicyDenied(i) THEN 403 ELSE 400)
            /\ \A k \in ResponsesFor(i) :
                  /\ "result" \in DOMAIN stdout[k].json
                  /\ "error" \notin DOMAIN stdout[k].json
                  /\ stdout[k].json.result.content[1].text.ok = FALSE

C13_Witness ==
    \E i, j \in 1..Len(reqs) :
        /\ PolicyDenied(i) /\ ToolOf(i) = "api.orders.create"
        /\ FailedValidation(j) /\ ToolOf(j) = "api.orders.create"
        /\ \E k \in ResponsesFor(i) : stdout[k].json.result.content[1].text.status = 403
        /\ \E k \in ResponsesFor(j) : stdout[k].json.result.content[1].text.status = 400

\* -------------------------------------------------------------------- C14

\* what callTool throws when call i lacks an argument its tool requires
\* (<<>> when it lacks none)
MissingArgumentMessage(i) ==
    LET tool == ToolOf(i)
        args == ArgsOf(i)
    IN  CASE tool = "contracts.readSchema" /\ Falsy(args.name) ->
                <<"Schema name is required">>
          [] tool \in {"env.getApiBase", "healthz"} /\ Falsy(args.target) ->
                <<"Target environment is required">>
          [] tool \in Proxied /\ (FalsyPayload(args.payload) \/ Falsy(args.target)) ->
                <<"Payload and target are required">>
          [] OTHER -> <<>>

MissingArgument(i) ==
    IsCallOf(i, CallToolNames) /\ MissingArgumentMessage(i) # <<>>

\* C14 as stated: a tools/call that omits a required argument of its tool is
\* answered with a tool result in the result member of the response, not
\* with an error member.
C14_MissingArgumentIsToolResult ==
    \A i \in 1..Len(reqs) :
        (MissingArgument(i) /\ Answered(i)) => (HasResult(i) /\ ~HasError(i))

\* C14 as amended: a tools/call that omits a required argument of its tool is
\* answered with the JSON-RPC error -32603 "Internal error" whose data names
\* what is required; the response has no result member, and nothing is sent
\* to the backend.
C14_MissingArgumentIsInternalError ==
    \A i \in 1..Len(reqs) :
        MissingArgument(i) =>
            /\ reqs[i].pc \in {"ready", "done"}
            /\ HasError(i) /\ ~HasResult(i)
            /\ reqs[i].response.error.code = -32603
            /\ reqs[i].response.error.message = <<"Internal error">>
            /\ reqs[i].response.error.data = MissingArgumentMessage(i)
            /\ SentFor(i) = {}
            /\ \A k \in ResponsesFor(i) :
                  /\ "result" \notin DOMAIN stdout[k].json
                  /\ stdout[k].json.error.data = MissingArgumentMessage(i)

C14_Witness ==
    \E i \in 1..Len(reqs) :
        /\ MissingArgument(i) /\ ToolOf(i) = "healthz"
        /\ \E k \in ResponsesFor(i) :
              stdout[k].json.error.data = <<"Target environment is required">>

\* -------------------------------------------------------------------- C15

\* C15: what isProxyAllowed(target) returns is fixed by the configured proxy
\* mode and the target alone: with PROXY_MODE unset or "dev-only" it is true
\* exactly for target "dev"; with PROXY_MODE "all" it is true for every target.
C15_ProxyAllowedTable ==
    gateway.op = "isProxyAllowed" =>
        /\ proxyMode = (IF env = "all" THEN "all" ELSE "dev-only")
        /\ gateway.result.ok =
              (IF env \in {Absent, "dev-only"} THEN gateway.target = "dev" ELSE TRUE)

C15_Witness ==
    /\ env = Absent
    /\ gateway.op = "isProxyAllowed" /\ gateway.target = "prod"
    /\ gateway.result.ok = FALSE

\* -------------------------------------------------------------------- C16

CallableOps == {"healthz", "createOrder", "createSubscription"}

\* C16: each of the three callable operations maps the code of a backend
\* error to a status by one table: unauthenticated to 401, permission-denied
\* to 403, invalid-argument to 400, any other code to 500.
C16_OneStatusTable ==
    (gateway.op \in CallableOps /\ gateway.outcome.kind = "reject") =>
        /\ gateway.result.ok = FALSE
        /\ gateway.result.status =
              (CASE gateway.outcome.code = "unauthenticated" -> 401
                 [] gateway.outcome.code = "permission-denied" -> 403
                 [] gateway.outcome.code = "invalid-argument" -> 400
                 [] OTHER -> 500)

\* -------------------------------------------------------------------- C17

\* C17: makeRequest does not raise on an HTTP status: whatever status the
\* backend answers with, it returns a result with that status and the body of
\* the response, without an error text, and ok is true exactly when
\* 200 <= status < 300.
C17_StatusNeverRaises ==
    (gateway.op = "makeRequest" /\ gateway.outcome.kind = "response") =>
        /\ DOMAIN gateway.result = {"status", "body", "ok"}
        /\ gateway.result.status = gateway.outcome.status
        /\ gateway.result.body = gateway.outcome.data
        /\ gateway.result.ok =
              (gateway.outcome.status >= 200 /\ gateway.outcome.status < 300)

C17_Witness ==
    /\ gateway.op = "makeRequest"
    /\ gateway.outcome.kind = "response" /\ gateway.outcome.status = 300
    /\ gateway.outcome.data = [kind |-> "error"]
    /\ gateway.result.ok = FALSE /\ gateway.result.status = 300
    /\ gateway.result.body = [kind |-> "error"]

\* -------------------------------------------------------------------- C18

\* the backend call of the last gateway operation failed in transport: axios
\* threw (an AxiosError or anything else) or the callable rejected
TransportFailure ==
    /\ gateway.op \in {"makeRequest"} \cup CallableOps
    /\ gateway.outcome.kind \in {"axiosError", "otherError", "reject"}

\* C18: in both transport strategies a transport failure of the backend call
\* is caught inside the gateway operation, which returns a result with
\* ok=false and a non-empty error text; the operation does not throw.
C18_TransportFailureIsResult ==
    TransportFailure =>
        /\ {"ok", "status", "error"} \subseteq DOMAIN gateway.result
        /\ "thrown" \notin DOMAIN gateway.result
        /\ gateway.result.ok = FALSE
        /\ gateway.result.error # <<>>

C18_Witness ==
    /\ TransportFailure
    /\ gateway.op = "createSubscription" /\ gateway.outcome.message = <<>>
    /\ gateway.result.ok = FALSE
    /\ gateway.result.error = <<"Firebase function call failed">>

\* -------------------------------------------------------------------- C19

Waiting(i) == reqs[i].pc = "waiting"

\* a request every specification of the server can receive
PingLine == Line("scalar", Absent, Absent, NoParams)

\* while the backend call of some request is unresolved the listener still
\* takes the next line, and every response that is ready can be written
LoopNotBlocked ==
    \A a \in 1..Len(reqs) :
        Waiting(a) =>
            /\ Len(reqs) < MaxLines => ENABLED ReceiveLine(PingLine)
            /\ \A b \in 1..Len(reqs) : reqs[b].pc = "ready" => ENABLED SendResponse(b)

\* a step that completes a request appends its response, as stringified, to
\* what stdout holds; a step never rewrites or reorders what stdout holds
WrittenOnCompletion ==
    /\ Len(stdout') >= Len(stdout)
    /\ SubSeq(stdout', 1, Len(stdout)) = stdout
    /\ \A i \in 1..Len(reqs) :
          (reqs[i].pc # "done" /\ reqs'[i].pc = "done") =>
              /\ Len(stdout') = Len(stdout) + 1
              /\ stdout'[Len(stdout')].kind = "response"
              /\ stdout'[Len(stdout')].for = i
              /\ stdout'[Len(stdout')].json = Stringify(reqs[i].response)
              /\ DOMAIN stdout'[Len(stdout')].json \subseteq {"jsonrpc", "id", "result", "error"}

\* C19: a pending backend call does not block the loop: while the call of a
\* request is unresolved, later lines are still parsed and dispatched and
\* their responses written; each response is written when its request
\* completes, after the responses written before it, and carries nothing but
\* the id of its request to match it by.
C19_PendingCallDoesNotBlock ==
    /\ []LoopNotBlocked
    /\ [][WrittenOnCompletion]_vars

\* request 1 still waits for its backend while the response of request 2,
\* received after it, is already written
C19_Witness ==
    /\ Len(reqs) = 2
    /\ Waiting(1) /\ reqs[1].line.id = "1"
    /\ reqs[2].pc = "done" /\ reqs[2].line.id = "2"
    /\ IsCallOf(2, {"healthz"})
    /\ ResponsesFor(1) = {}
    /\ \E k \in ResponsesFor(2) : stdout[k].json.id = "2"

\* -------------------------------------------------------------------- C20

\* line i is one of the three requests that read nothing but static data
\* and the contract file: tools/list, initialize, tools/call of
\* contracts.readOpenAPI
IsStaticRequest(i) ==
    /\ reqs[i].line.json = "object"
    /\ \/ reqs[i].line.method \in {"tools/list", "initialize"}
       \/ IsCallOf(i, {"contracts.readOpenAPI"})

SameRequest(i, j) ==
    /\ reqs[i].line.method = reqs[j].line.method
    /\ reqs[i].line.params = reqs[j].line.params

InvalidLine(i) == reqs[i].line.json = "invalid"

\* a step that reads a line that is not JSON writes nothing to stdout and
\* exactly one entry to stderr
InvalidLineLoggedOnce ==
    (Len(reqs') = Len(reqs) + 1 /\ reqs'[Len(reqs')].line.json = "invalid") =>
        /\ stdout' = stdout
        /\ stderr' = Append(stderr, [level |-> "error",
                                     message |-> <<"Failed to parse request: ">>])
        /\ reqs'[Len(reqs')].pc = "dropped"

\* a line that is not JSON is never answered and never stops the loop
InvalidLineDropped ==
    \A i \in 1..Len(reqs) :
        InvalidLine(i) =>
            /\ ResponsesFor(i) = {}
            /\ SentFor(i) = {}
            /\ reqs[i].pc = "dropped"
            /\ Len(reqs) < MaxLines => ENABLED ReceiveLine(PingLine)
            /\ \A j \in (i + 1)..Len(reqs) :
                  (reqs[j].line.json = "object" /\ reqs[j].line.method = "initialize") =>
                      Answered(j) /\ HasResult(j)

\* C21: a line that is not valid JSON produces no response line and exactly
\* one log entry, at each of the log levels debug, info, warn and error, and
\* the loop goes on to handle the next line.
C21_InvalidJsonLoggedNotAnswered ==
    /\ []InvalidLineDropped
    /\ [][InvalidLineLoggedOnce]_vars

C21_Witness ==
    /\ logLevel = "error"
    /\ Len(reqs) = 2
    /\ InvalidLine(1)
    /\ reqs[2].line.method = "initialize" /\ reqs[2].pc = "done"
    /\ stdout = <<[for |-> 2, kind |-> "response", text |-> <<>>,
                   json |-> Stringify(reqs[2].response)]>>
    /\ stderr = <<[level |-> "error", message |-> <<"Failed to parse request: ">>]>>

\* -------------------------------------------------------------------- C22

EnvironmentAware == {"api.orders.create", "api.subscribe.create", "healthz"}

\* call i is to an environment-aware tool and leaves out nothing but target
OmitsTarget(i) ==
    /\ IsCallOf(i, EnvironmentAware)
    /\ Falsy(ArgsOf(i).target)
    /\ ToolOf(i) \in Proxied => ~FalsyPayload(ArgsOf(i).payload)

RequiredMessages ==
    {<<"Target environment is required">>, <<"Payload and target are required">>}

\* C22 as stated: target is optional for api.orders.create,
\* api.subscribe.create and healthz: a call that omits it is not rejected as
\* lacking an argument.
C22_TargetOptional ==
    \A i \in 1..Len(reqs) :
        (OmitsTarget(i) /\ Answered(i)) =>
            ~(HasError(i) /\ reqs[i].response.error.data \in RequiredMessages)

\* C22 as amended: target is required for api.orders.create,
\* api.subscribe.create and healthz: the catalogue lists it as required, and a
\* call that omits it is answered with the JSON-RPC error -32603 whose data
\* says that it is required, and nothing is sent to the backend.
C22_TargetRequired ==
    \A i \in 1..Len(reqs) :
        OmitsTarget(i) =>
            /\ "target" \in requiredOf(ToolOf(i))
            /\ reqs[i].pc \in {"ready", "done"}
            /\ HasError(i) /\ ~HasResult(i)
            /\ reqs[i].response.error.code = -32603
            /\ reqs[i].response.error.data =
                  (IF ToolOf(i) = "healthz" THEN <<"Target environment is required">>
                   ELSE <<"Payload and target are required">>)
            /\ SentFor(i) = {}

C22_Witness ==
    \E i \in 1..Len(reqs) :
        /\ OmitsTarget(i) /\ ToolOf(i) = "api.orders.create"
        /\ ArgsOf(i).payload = ValidPayload
        /\ \E k \in ResponsesFor(i) :
              stdout[k].json.error.data = <<"Payload and target are required">>

\* -------------------------------------------------------------------- C23

ReadFailure(i) ==
    /\ HasError(i)
    /\ "data" \in DOMAIN reqs[i].response.error
    /\ reqs[i].response.error.data = <<"Failed to read OpenAPI contract: ", "ENOENT">>

\* C23 as stated: a contract document that cannot be read, the OpenAPI
\* document or a schema file, makes the process fail before it serves any
\* request, and no request is answered with an error caused by a missing
\* contract file.
C23_MissingContractFatalAtStartup ==
    /\ (~contracts.openapi \/ ~contracts.schemas) =>
          (proc.status = "exited" /\ reqs = <<>>)
    /\ \A i \in 1..Len(reqs) : Answered(i) => ~ReadFailure(i)

\* C23 as amended: a schema file that cannot be read makes the process fail
\* at start-up, before any request is served.  The OpenAPI document is read
\* on each call of contracts.readOpenAPI: with the document missing the
\* server starts and serves, and each such call is answered with the JSON-RPC
\* error -32603 whose data is "Failed to read OpenAPI contract: ..."; no other
\* request is answered with that error.
C23_OnlySchemasFatalAtStartup ==
    /\ ~contracts.schemas =>
          /\ proc.status = "exited" /\ proc.code = 1
          /\ reqs = <<>> /\ stdout = <<>>
    /\ \A i \in 1..Len(reqs) :
          /\ proc.status = "running"
          /\ (IsCallOf(i, {"contracts.readOpenAPI"}) /\ ~contracts.openapi) =>
                (Answered(i) /\ ReadFailure(i) /\ reqs[i].response.error.code = -32603)
          /\ (Answered(i) /\ ReadFailure(i)) =>
                (IsCallOf(i, {"contracts.readOpenAPI"}) /\ ~contracts.openapi)

C23_Witness ==
    /\ ~contracts.openapi
    /\ proc.status = "running"
    /\ \E i \in 1..Len(reqs) :
          /\ IsCallOf(i, {"contracts.readOpenAPI"})
          /\ \E k \in ResponsesFor(i) :
                stdout[k].json.error.data = <<"Failed to read OpenAPI contract: ", "ENOENT">>

\* -------------------------------------------------------------------- C24

\* C24: contracts.readSchema fails for every name that is not a registered
\* contract name, a name inherited by the lookup object such as "toString"
\* included, and returns a schema only for a registered name.
C24_ReadSchemaOnlyRegistered ==
    \A i \in 1..Len(reqs) :
        (IsCallOf(i, {"contracts.readSchema"}) /\ Answered(i)) =>
            IF ArgsOf(i).name \in SchemaNames
            THEN HasResult(i) /\ ToolContent([schema |-> ArgsOf(i).name]) = reqs[i].response.result
            ELSE HasError(i) /\ ~HasResult(i)

\* -------------------------------------------------------------------- C25

\* how a process that has exited got there
ExitedRight ==
    proc.status = "exited" =>
        /\ proc.by \in Signals => (proc.input = "closed" /\ proc.code = 0)
        /\ proc.by \in Faults =>
              /\ proc.code # 0
              /\ stderr # <<>>
              /\ stderr[Len(stderr)].level = "error"
              /\ stderr[Len(stderr)].message[1] =
                    (IF proc.by = "uncaughtException" THEN "Uncaught exception: "
                     ELSE "Unhandled rejection: ")

\* the step that exits is taken with the input stream already closed (after
\* a signal) or the fault already logged
ClosedOrLoggedBeforeExit ==
    (proc.status # "exited" /\ proc'.status = "exited") =>
        /\ proc.by \in Signals => proc.input = "closed"
        /\ proc.by \in Faults =>
              (stderr' = stderr /\ stderr # <<>> /\ stderr[Len(stderr)].level = "error")

\* C25: on SIGINT or SIGTERM the input stream is closed first and the process
\* then exits with code 0; on an uncaught exception or an unhandled rejection
\* the fault is logged first and the process then exits with a non-zero code.
C25_GracefulAndFaultExit ==
    /\ []ExitedRight
    /\ [][ClosedOrLoggedBeforeExit]_vars

C25_Witness ==
    /\ proc.status = "exited" /\ proc.by = "SIGTERM"
    /\ proc.input = "closed" /\ proc.code = 0
    /\ Len(reqs) = 1 /\ Waiting(1)

\* -------------------------------------------------------------------- C26

\* the backend answers with HTTP 200
Ok200 == [kind |-> "response", status |-> 200, message |-> <<>>, data |-> DataBody]

HealthyDev == [ok |-> TRUE, status |-> 200, target |-> "dev"]

\* the step in which the dev backend answers the healthz call i with 200
\* leaves it with the result {ok: true, status: 200, target: "dev"}
HealthzDevSettles ==
    \A i \in 1..MaxLines :
        (/\ BackendSettles(i, Ok200)
         /\ IsCallOf(i, {"healthz"})
         /\ ArgsOf(i).target = "dev") =>
            /\ \A k \in SentFor(i) :
                  sent[k] = [for |-> i, method |-> "GET", base |-> apiBaseDev, path |-> "/healthz"]
            /\ Cardinality(SentFor(i)) = 1
            /\ reqs'[i].response.result = ToolContent(HealthyDev)
            /\ DOMAIN reqs'[i].response = {"jsonrpc", "id", "result"}

\* C26: healthz with target dev against a dev backend that answers HTTP 200
\* returns exactly {ok: true, status: 200, target: "dev"}, with no body and
\* no error member.
C26_HealthzDevReturnsExactResult == [][HealthzDevSettles]_vars

C26_Witness ==
    \E i \in 1..Len(reqs) :
        /\ IsCallOf(i, {"healthz"}) /\ ArgsOf(i).target = "dev"
        /\ reqs[i].pc = "done"
        /\ \E k \in ResponsesFor(i) :
              /\ "result" \in DOMAIN stdout[k].json
              /\ stdout[k].json.result.content[1].text = HealthyDev

\* -------------------------------------------------------------------- C27

\* call i passed the structural check, the policy gate and the validator
PassedAllChecks(i) ==
    /\ IsCallOf(i, Proxied)
    /\ ~FalsyPayload(ArgsOf(i).payload) /\ ~Falsy(ArgsOf(i).target)
    /\ isProxyAllowed(ArgsOf(i).target)
    /\ ValidateErrors(SchemaOf(ToolOf(i)), ArgsOf(i).payload) = <<>>

\* the step in which the backend call of such a call settles leaves it with
\* the result makeRequest returns, whatever the outcome
GatewayResultVerbatim ==
    \A i \in 1..MaxLines, outcome \in AxiosOutcomes :
        (BackendSettles(i, outcome) /\ PassedAllChecks(i)) =>
            /\ reqs'[i].response.result = ToolContent(makeRequest(outcome))
            /\ DOMAIN reqs'[i].response = {"jsonrpc", "id", "result"}

\* C27: for api.orders.create and api.subscribe.create, when the structural
\* check, the policy check and schema validation pass, the tool result is the
\* GatewayResult of the backend call, nothing added, removed or changed.
C27_GatewayResultReturnedVerbatim ==
    /\ [](\A i \in 1..Len(reqs) :
            PassedAllChecks(i) =>
                /\ reqs[i].pc \in {"waiting", "ready", "done"}
                /\ Cardinality(SentFor(i)) = 1
                /\ reqs[i].validated)
    /\ [][GatewayResultVerbatim]_vars

C27_Witness ==
    \E i \in 1..Len(reqs) :
        /\ PassedAllChecks(i) /\ ToolOf(i) = "api.subscribe.create"
        /\ reqs[i].pc = "done"
        /\ \E k \in ResponsesFor(i) :
              stdout[k].json.result.content[1].text =
                  [status |-> 500, body |-> DataBody, ok |-> FALSE]

\* -------------------------------------------------------------------- C28

\* the requests that read only static data, the contract store or the
\* configuration
Descriptive(i) ==
    /\ reqs[i].line.json = "object"
    /\ \/ reqs[i].line.method \in {"initialize", "tools/list"}
       \/ IsCallOf(i, {"contracts.readOpenAPI", "contracts.readSchema", "env.getApiBase"})

\* C28: a request causes at most one backend request; initialize, tools/list,
\* contracts.readOpenAPI, contracts.readSchema and env.getApiBase cause none;
\* a backend request of api.orders.create or api.subscribe.create is sent only
\* for a payload that passed schema validation.
C28_AtMostOneValidatedBackendCall ==
    /\ \A k \in 1..Len(sent) : sent[k].for \in 1..Len(reqs)
    /\ \A i \in 1..Len(reqs) :
          /\ Cardinality(SentFor(i)) <= 1
          /\ Descriptive(i) => SentFor(i) = {}
          /\ (IsCallOf(i, Proxied) /\ SentFor(i) # {}) =>
                /\ reqs[i].validated
                /\ ValidateErrors(SchemaOf(ToolOf(i)), ArgsOf(i).payload) = <<>>
                /\ \A k \in SentFor(i) : sent[k].method = "POST"

C28_Witness ==
    /\ Len(reqs) = 2
    /\ IsCallOf(1, {"api.orders.create"}) /\ Cardinality(SentFor(1)) = 1
    /\ reqs[1].validated /\ reqs[1].pc = "done"
    /\ IsCallOf(2, {"env.getApiBase"}) /\ reqs[2].pc = "done" /\ HasResult(2)
    /\ SentFor(2) = {}

\* -------------------------------------------------------------------- C29

\* type ApiTarget = 'dev' | 'prod'
ApiTarget == {"dev", "prod"}

\* C29: a tools/call of an environment-aware tool whose target is outside
\* {dev, prod} never causes a backend request, under either proxy mode.
C29_UndeclaredTargetNeverSent ==
    \A i \in 1..Len(reqs) :
        (IsCallOf(i, EnvironmentAware) /\ ArgsOf(i).target \notin ApiTarget) =>
            SentFor(i) = {}

\* -------------------------------------------------------------------- C30

OwnErrors(i) == ValidateErrors(SchemaOf(ToolOf(i)), ArgsOf(i).payload)

\* a request is suspended only while its backend request is out, and the
\* details of a validation failure are those of the payload of its own call
OwnValidationDetails ==
    \A i \in 1..Len(reqs) :
        /\ reqs[i].pc \in {"waiting", "ready", "rejected", "done", "dropped"}
        /\ reqs[i].pc = "waiting" <=> (SentFor(i) # {} /\ ~Answered(i))
        /\ FailedValidation(i) =>
              /\ Answered(i) /\ HasResult(i)
              /\ ToolResult(i).body.details = ErrorsText(OwnErrors(i))
              /\ ToolResult(i).error = <<"Schema validation failed: ">> \o ErrorsText(OwnErrors(i))

\* the step that takes a line runs the checks to the end: the validator it
\* ran holds the errors of that line's payload when the step is over
ChecksRunInOneStep ==
    (Len(reqs') = Len(reqs) + 1 /\ reqs'[Len(reqs')].validated) =>
        LET i == Len(reqs')
        IN  /\ validatorErrors'[ValidatorOf(reqs'[i].line.params.name)] =
                  ValidateErrors(IF reqs'[i].line.params.name = "api.orders.create"
                                 THEN orderCreateSchema ELSE subscribeCreateSchema,
                                 reqs'[i].line.params.arguments.payload)
            /\ reqs'[i].pc \in {"waiting", "ready"}

AnsweredAlone(line, outcome) ==
    LET h == handleRequest(line)
    IN  IF h.kind = "await" THEN resumeRequest(line, h.pending, outcome)
        ELSE h.response

\* two requests with the same line that were answered without the backend
\* carry the same response, and it is the one the line gets on its own
SameLineSameResponse ==
    \A i, j \in 1..Len(reqs) :
        (/\ reqs[i].line = reqs[j].line
         /\ Answered(i) /\ Answered(j)
         /\ SentFor(i) = {} /\ SentFor(j) = {}) =>
            /\ reqs[i].response = reqs[j].response
            /\ reqs[i].response = handleRequest(reqs[i].line).response

\* a settlement answers its own request with what the line and the outcome
\* determine, and no step touches the response of another request
ResponseIsOwn ==
    /\ \A i \in 1..Len(reqs), outcome \in AxiosOutcomes :
          BackendSettles(i, outcome) =>
              /\ reqs'[i].response = AnsweredAlone(reqs[i].line, outcome)
              /\ \A j \in 1..Len(reqs) : j # i => reqs'[j] = reqs[j]
    /\ \A i \in 1..Len(reqs) :
          Answered(i) => reqs'[i].response = reqs[i].response

ViolatedFields(schema, payload) ==
    {k \in 1..Len(schema) : payload[schema[k]] # "ok"}

\* the entries of a details string: the places where a "path: message" starts
EntriesOf(details) ==
    {k \in 1..Len(details) : k + 1 <= Len(details) /\ details[k + 1] = ": "}

\* the details of a rejected object payload hold one entry per violated
\* constraint: the path of the field for an ill-formed one, root for a
\* missing one; the details of a payload that is no object hold the one
\* entry of the root
AllViolationsReported(i) ==
    LET schema  == SchemaOf(ToolOf(i))
        payload == ArgsOf(i).payload
        details == ToolResult(i).body.details
        bad     == {k \in ViolatedFields(schema, payload) : payload[schema[k]] = "bad"}
        missing == {k \in ViolatedFields(schema, payload) : payload[schema[k]] = "missing"}
    IN  IF payload.type # "object"
        THEN details = <<"root", ": ", "must be object">>
        ELSE /\ Cardinality(EntriesOf(details)) = Cardinality(ViolatedFields(schema, payload))
             /\ \A k \in bad : \E e \in EntriesOf(details) : details[e] = schema[k]
             /\ Cardinality({e \in EntriesOf(details) : details[e] = "root"})
                    = Cardinality(missing)
             /\ \A e \in EntriesOf(details) :
                    details[e] \in {"root"} \cup {schema[k] : k \in bad}

\* C32: validation does not stop at the first violation: the details of a
\* validation-failed result hold one path/message entry for every violated
\* constraint, each naming the path of the offending field, or "root".
C32_EveryViolationReported ==
    \A i \in 1..Len(reqs) :
        FailedValidation(i) => (Answered(i) /\ HasResult(i) /\ AllViolationsReported(i))

\* an order that lacks its email and carries ill-formed items: two entries
C32_Witness ==
    \E i \in 1..Len(reqs) :
        /\ FailedValidation(i) /\ ToolOf(i) = "api.orders.create"
        /\ ArgsOf(i).payload = ObjectPayload("missing", "bad")
        /\ reqs[i].pc = "done"
        /\ \E k \in ResponsesFor(i) :
              stdout[k].json.result.content[1].text.body.details =
                  <<"root", ": ", "must have required property", "; ",
                    "items", ": ", "must match format">>

\* -------------------------------------------------------------------- C33

\* call i is to api.orders.create and leaves out exactly one of payload and
\* target
OmitsOneOf(i) ==
    /\ IsCallOf(i, {"api.orders.create"})
    /\ reqs[i].line.params.arguments.present
    /\ FalsyPayload(ArgsOf(i).payload) # Falsy(ArgsOf(i).target)

AbsentField(i) == IF Falsy(ArgsOf(i).target) THEN "target" ELSE "payload"

\* the arguments the message of a structural failure names
NamedFields(message) ==
    CASE message = <<"Payload and target are required">> -> {"payload", "target"}
      [] message = <<"Target environment is required">> -> {"target"}
      [] message = <<"Schema name is required">> -> {"name"}
      [] OTHER -> {}

\* C33 as stated: an order that leaves out exactly one of payload and target
\* fails with a missing-argument failure that names that one absent field,
\* also when the target is prod under the dev-only policy.
C33_NamesTheAbsentField ==
    \A i \in 1..Len(reqs) :
        (OmitsOneOf(i) /\ Answered(i)) =>
            /\ HasError(i)
            /\ NamedFields(reqs[i].response.error.data) = {AbsentField(i)}

\* C33 as amended: an order that leaves out exactly one of payload and target
\* fails, before the policy gate is asked, with the failure "Payload and
\* target are required", which names both fields whichever is absent; an
\* order without payload for prod under the dev-only policy gets this
\* failure and not the refusal, and nothing is sent to the backend.
C33_StructuralCheckFirstNamesBoth ==
    \A i \in 1..Len(reqs) :
        OmitsOneOf(i) =>
            /\ Answered(i)
            /\ HasError(i) /\ ~HasResult(i)
            /\ reqs[i].response.error.data = <<"Payload and target are required">>
            /\ NamedFields(reqs[i].response.error.data) = {"payload", "target"}
            /\ SentFor(i) = {}

\* an order without payload for prod, refused by the structural check under
\* the dev-only policy
C33_Witness ==
    \E i \in 1..Len(reqs) :
        /\ OmitsOneOf(i) /\ AbsentField(i) = "payload"
        /\ ArgsOf(i).target = "prod" /\ proxyMode = "dev-only"
        /\ ~isProxyAllowed("prod")
        /\ reqs[i].pc = "done"
        /\ \E k \in ResponsesFor(i) :
              stdout[k].json.error.data = <<"Payload and target are required">>

\* -------------------------------------------------------------------- C34

\* line i is a tools/list request that was answered
ListAnswered(i) ==
    /\ reqs[i].line.json = "object" /\ reqs[i].line.method = "tools/list"
    /\ Answered(i) /\ HasResult(i)

\* the tool names the answer to line i lists
ListedNames(i) == Range(reqs[i].response.result.tools)

\* call j was answered with the unknown-tool failure
AnsweredUnknownTool(j) ==
    /\ HasError(j)
    /\ "data" \in DOMAIN reqs[j].response.error
    /\ reqs[j].response.error.data = <<"Unknown tool: ", ToolOf(j)>>

\* C34: the catalogue and the dispatcher agree: a tool name that tools/list
\* returns is never answered with "Unknown tool" by tools/call, and a tool
\* name that tools/call accepts is one that tools/list returns.
C34_CatalogueMatchesDispatcher ==
    \A i, j \in 1..Len(reqs) :
        (/\ ListAnswered(i)
         /\ IsToolsCall(j) /\ reqs[j].line.params.present /\ Answered(j)) =>
            (ToolOf(j) \in ListedNames(i) <=> ~AnsweredUnknownTool(j))

\* -------------------------------------------------------------------- C35

\* the order of the levels: debug < info < warn < error
Rank(level) ==
    CASE level = "debug" -> 0
      [] level = "info" -> 1
      [] level = "warn" -> 2
      [] level = "error" -> 3

====
